---------------------------- MODULE Spec2Model ----------------------------
(***************************************************************************)
(* Model of the authentication layer of s3-test-app: the token codec       *)
(* (TokenManager.GenerateToken / ValidateToken), the Claims-to-User         *)
(* conversion and the AuthMiddleware.                                       *)
(*                                                                         *)
(* Go strings are modelled as sequences of byte values (0..255).  The      *)
(* library conversions the code calls (encoding/base64, encoding/json,     *)
(* strings.Split) are modelled by what they do on those bytes.  Two        *)
(* abstractions are made and kept visible in the definitions:              *)
(*   - HMAC-SHA256 is an ideal keyed function: the digest is an injective  *)
(*     byte encoding of (key, message); secrets are non-empty and NUL-free *)
(*     (they come from an environment variable) and shorter than the hash  *)
(*     block, so distinct secrets are distinct HMAC keys;                  *)
(*   - a time.Time is an integer tick, rendered in JSON as its decimal     *)
(*     digits (in place of RFC 3339).                                      *)
(***************************************************************************)
EXTENDS Integers, Sequences, FiniteSets, TLC

(***************************************************************************)
(* Bounds of the model.                                                    *)
(***************************************************************************)
\* The clock runs from its value in Init to MaxTime.
MaxTime == 10
\* GenerateToken is called with ttl in -1..MaxTTL (the code accepts any ttl).
MaxTTL == 1
\* The clock may advance by 0..MaxSkew between GenerateToken's two clock reads.
MaxSkew == 1
\* A single-byte change is tried on the first MaxPos bytes of the claims
\* segment and on its last four bytes (the final base64 quantum).
MaxPos == 2
\* At most MaxStoreChanges rows of the users table are deleted or given
\* another role.
MaxStoreChanges == 1

(***************************************************************************)
(* Bytes and strings.                                                      *)
(***************************************************************************)
\* The concatenation of a sequence of strings.
RECURSIVE Concat(_)
Concat(ss) == IF ss = <<>> THEN <<>> ELSE Head(ss) \o Concat(Tail(ss))

\* s with its i-th byte replaced by b.
SetByte(s, i, b) == [s EXCEPT ![i] = b]

\* The positions of byte c in s, in increasing order.
RECURSIVE SortedSeq(_)
SortedSeq(S) ==
    IF S = {} THEN <<>>
    ELSE LET m == CHOOSE x \in S : \A y \in S : x <= y
         IN  <<m>> \o SortedSeq(S \ {m})

\* strings.Split(s, sep) for a one-byte separator: the substrings between
\* the separators, always at least one.
Split(s, sep) ==
    LET at == SortedSeq({i \in 1..Len(s) : s[i] = sep})
        n  == Len(at)
        from(k) == IF k = 1 THEN 1 ELSE at[k - 1] + 1
        to(k)   == IF k = n + 1 THEN Len(s) ELSE at[k] - 1
    IN  [k \in 1..(n + 1) |-> SubSeq(s, from(k), to(k))]

(***************************************************************************)
(* encoding/base64, StdEncoding: the standard alphabet, '=' padding,       *)
(* non-strict decoding.                                                    *)
(***************************************************************************)
\* "ABCDEFGHIJKLMNOPQRSTUVWXYZabcdefghijklmnopqrstuvwxyz0123456789+/"
encodeStd ==
    <<65, 66, 67, 68, 69, 70, 71, 72, 73, 74, 75, 76, 77, 78, 79, 80, 81, 82,
      83, 84, 85, 86, 87, 88, 89, 90, 97, 98, 99, 100, 101, 102, 103, 104, 105,
      106, 107, 108, 109, 110, 111, 112, 113, 114, 115, 116, 117, 118, 119,
      120, 121, 122, 48, 49, 50, 51, 52, 53, 54, 55, 56, 57, 43, 47>>

\* '='
StdPadding == 61

\* The 6-bit value of an alphabet byte, 255 for any other byte (decodeMap).
decodeMap(c) ==
    CASE c >= 65 /\ c <= 90  -> c - 65
      [] c >= 97 /\ c <= 122 -> c - 71
      [] c >= 48 /\ c <= 57  -> c + 4
      [] c = 43 -> 62
      [] c = 47 -> 63
      [] OTHER -> 255

\* Encoding.EncodeToString: each 3 bytes become 4 alphabet bytes; a final
\* group of 1 or 2 bytes is padded with zero bits and '='.
EncodeToString(src) ==
    LET n == Len(src)
        byte(i) == IF i <= n THEN src[i] ELSE 0
        val(q) == byte(3 * q + 1) * 65536 + byte(3 * q + 2) * 256 + byte(3 * q + 3)
        sextet(q, j) ==
            CASE j = 0 -> val(q) \div 262144
              [] j = 1 -> (val(q) \div 4096) % 64
              [] j = 2 -> (val(q) \div 64) % 64
              [] OTHER -> val(q) % 64
        out(k) ==
            LET q == (k - 1) \div 4
                j == (k - 1) % 4
            IN  IF 3 * q + j > n THEN StdPadding ELSE encodeStd[sextet(q, j) + 1]
    IN  [k \in 1..(4 * ((n + 2) \div 3)) |-> out(k)]

\* Encoding.DecodeString: [ok |-> whether the input decoded, bytes |-> the
\* decoded bytes].  '\r' and '\n' are skipped; what is left must be whole
\* 4-byte quanta of alphabet bytes, the last one possibly ending in "=" or
\* "=="; the bits of the last alphabet byte that fall beyond the last whole
\* output byte are ignored (the encoding is not Strict).
DecodeString(s) ==
    LET t == SelectSeq(s, LAMBDA c : c # 10 /\ c # 13)
        n == Len(t)
        pad == IF n >= 2 /\ t[n] = StdPadding
               THEN (IF t[n - 1] = StdPadding THEN 2 ELSE 1)
               ELSE 0
        wellFormed ==
            /\ n % 4 = 0
            /\ \A i \in 1..(n - pad) : decodeMap(t[i]) # 255
        v(i) == decodeMap(t[i])
        outLen == 3 * (n \div 4) - pad
        byte(k) ==
            LET q == (k - 1) \div 3
                j == (k - 1) % 3
                b == 4 * q
            IN  CASE j = 0 -> v(b + 1) * 4 + (v(b + 2) \div 16)
                  [] j = 1 -> (v(b + 2) % 16) * 16 + (v(b + 3) \div 4)
                  [] OTHER -> (v(b + 3) % 4) * 64 + v(b + 4)
    IN  IF wellFormed
        THEN [ok |-> TRUE, bytes |-> [k \in 1..outLen |-> byte(k)]]
        ELSE [ok |-> FALSE, bytes |-> <<>>]

(***************************************************************************)
(* encoding/json on the Claims struct.  Strings of the model are ASCII.    *)
(***************************************************************************)
\* "0123456789abcdef"
hex == <<48, 49, 50, 51, 52, 53, 54, 55, 56, 57, 97, 98, 99, 100, 101, 102>>

\* EscapeByte without the escapes: every byte is copied.
EscapeByteMissing(b) == <<b>>

\* The bytes json.Marshal writes for byte b inside a string (escapeHTML on):
\* '"' and '\' get a backslash, control bytes their short escape or \u00XX,
\* '<', '>' and '&' the \u00XX form, any other byte is copied.
EscapeByte(b) ==
    CASE b = 34 \/ b = 92 -> <<92, b>>
      [] b = 8  -> <<92, 98>>
      [] b = 12 -> <<92, 102>>
      [] b = 10 -> <<92, 110>>
      [] b = 13 -> <<92, 114>>
      [] b = 9  -> <<92, 116>>
      [] b < 32 \/ b = 60 \/ b = 62 \/ b = 38 ->
            <<92, 117, 48, 48, hex[(b \div 16) + 1], hex[(b % 16) + 1]>>
      [] OTHER -> <<b>>

\* A Go string as a JSON string literal.
appendString(s) ==
    <<34>> \o Concat([i \in 1..Len(s) |-> EscapeByte(s[i])]) \o <<34>>

\* The decimal digits of a natural number.
RECURSIVE Itoa(_)
Itoa(n) == IF n < 10 THEN <<48 + n>> ELSE Itoa(n \div 10) \o <<48 + (n % 10)>>

\* Time.MarshalJSON: the instant as a quoted string.
TimeMarshalJSON(t) == <<34>> \o Itoa(t) \o <<34>>

\* json.Marshal(claims): the fields in struct order under their json tags,
\* {"user_id":..,"email":..,"name":..,"role":..,"exp":..,"iat":..}
Marshal(c) ==
    Concat(<<
        <<123, 34, 117, 115, 101, 114, 95, 105, 100, 34, 58>>, appendString(c.UserID),
        <<44, 34, 101, 109, 97, 105, 108, 34, 58>>, appendString(c.Email),
        <<44, 34, 110, 97, 109, 101, 34, 58>>, appendString(c.Name),
        <<44, 34, 114, 111, 108, 101, 34, 58>>, appendString(c.Role),
        <<44, 34, 101, 120, 112, 34, 58>>, TimeMarshalJSON(c.ExpiresAt),
        <<44, 34, 105, 97, 116, 34, 58>>, TimeMarshalJSON(c.IssuedAt),
        <<125>> >>)

\* The zero Claims value; the zero time.Time precedes every clock reading.
ZeroClaims ==
    [UserID |-> <<>>, Email |-> <<>>, Name |-> <<>>, Role |-> <<>>,
     ExpiresAt |-> 0, IssuedAt |-> 0]

\* The value of a hexadecimal digit, -1 for any other byte.
HexVal(c) ==
    CASE c >= 48 /\ c <= 57  -> c - 48
      [] c >= 97 /\ c <= 102 -> c - 87
      [] c >= 65 /\ c <= 70  -> c - 55
      [] OTHER -> -1

\* The UTF-8 bytes of a code point below 0x10000.
EncodeRune(cp) ==
    IF cp < 128 THEN <<cp>>
    ELSE IF cp < 2048 THEN <<192 + (cp \div 64), 128 + (cp % 64)>>
    ELSE <<224 + (cp \div 4096), 128 + ((cp \div 64) % 64), 128 + (cp % 64)>>

\* The string literal that starts right after the opening quote at b[i]:
\* [ok, val |-> its unescaped bytes, next |-> the index after the closing
\* quote].  Surrogate pairs are not modelled.
RECURSIVE unquote(_, _, _)
unquote(b, i, acc) ==
    LET fail == [ok |-> FALSE, val |-> <<>>, next |-> i]
    IN  IF i > Len(b) THEN fail
        ELSE IF b[i] = 34 THEN [ok |-> TRUE, val |-> acc, next |-> i + 1]
        ELSE IF b[i] < 32 THEN fail
        ELSE IF b[i] # 92 THEN unquote(b, i + 1, Append(acc, b[i]))
        ELSE IF i + 1 > Len(b) THEN fail
        ELSE LET e == b[i + 1]
             IN  CASE e = 34 \/ e = 92 \/ e = 47 -> unquote(b, i + 2, Append(acc, e))
                   [] e = 98  -> unquote(b, i + 2, Append(acc, 8))
                   [] e = 102 -> unquote(b, i + 2, Append(acc, 12))
                   [] e = 110 -> unquote(b, i + 2, Append(acc, 10))
                   [] e = 114 -> unquote(b, i + 2, Append(acc, 13))
                   [] e = 116 -> unquote(b, i + 2, Append(acc, 9))
                   [] e = 117 ->
                        IF /\ i + 5 <= Len(b)
                           /\ \A k \in 2..5 : HexVal(b[i + k]) >= 0
                        THEN unquote(b, i + 6,
                                 acc \o EncodeRune(HexVal(b[i + 2]) * 4096
                                                   + HexVal(b[i + 3]) * 256
                                                   + HexVal(b[i + 4]) * 16
                                                   + HexVal(b[i + 5])))
                        ELSE fail
                   [] OTHER -> fail

\* Time.UnmarshalJSON on the contents of a string: [ok, t].
TimeUnmarshalJSON(s) ==
    LET digits == Len(s) > 0 /\ \A i \in 1..Len(s) : s[i] >= 48 /\ s[i] <= 57
        RECURSIVE atoi(_)
        atoi(k) == IF k = 0 THEN 0 ELSE atoi(k - 1) * 10 + (s[k] - 48)
    IN  IF digits THEN [ok |-> TRUE, t |-> atoi(Len(s))] ELSE [ok |-> FALSE, t |-> 0]

\* ASCII case folding: the decoder matches object keys to the json tags
\* without regard to case.
Fold(s) == [i \in 1..Len(s) |-> IF s[i] >= 65 /\ s[i] <= 90 THEN s[i] + 32 ELSE s[i]]

\* Claims c after member key : "val" has been decoded into it; [ok, c].  A key
\* that names no field is skipped.
setField(c, key, val) ==
    LET k == Fold(key)
        t == TimeUnmarshalJSON(val)
    IN  CASE k = <<117, 115, 101, 114, 95, 105, 100>> ->
                [ok |-> TRUE, c |-> [c EXCEPT !.UserID = val]]
          [] k = <<101, 109, 97, 105, 108>> ->
                [ok |-> TRUE, c |-> [c EXCEPT !.Email = val]]
          [] k = <<110, 97, 109, 101>> ->
                [ok |-> TRUE, c |-> [c EXCEPT !.Name = val]]
          [] k = <<114, 111, 108, 101>> ->
                [ok |-> TRUE, c |-> [c EXCEPT !.Role = val]]
          [] k = <<101, 120, 112>> ->
                [ok |-> t.ok, c |-> [c EXCEPT !.ExpiresAt = t.t]]
          [] k = <<105, 97, 116>> ->
                [ok |-> t.ok, c |-> [c EXCEPT !.IssuedAt = t.t]]
          [] OTHER -> [ok |-> TRUE, c |-> c]

\* The members of an object from b[i] on, decoded into c: [ok, c].  The
\* model's inputs are compact objects whose values are strings.
RECURSIVE object(_, _, _)
object(b, i, c) ==
    LET fail == [ok |-> FALSE, c |-> ZeroClaims]
    IN  IF i > Len(b) \/ b[i] # 34 THEN fail
        ELSE LET key == unquote(b, i + 1, <<>>)
             IN  IF ~key.ok \/ key.next + 1 > Len(b) \/ b[key.next] # 58
                    \/ b[key.next + 1] # 34
                 THEN fail
                 ELSE LET val == unquote(b, key.next + 2, <<>>)
                          set == setField(c, key.val, val.val)
                      IN  IF ~val.ok \/ val.next > Len(b) THEN fail
                          ELSE IF b[val.next] = 125
                          THEN (IF val.next = Len(b) /\ set.ok
                                THEN [ok |-> TRUE, c |-> set.c] ELSE fail)
                          ELSE IF b[val.next] = 44 /\ set.ok
                          THEN object(b, val.next + 1, set.c)
                          ELSE fail

\* json.Unmarshal(data, &Claims{}): [ok, c].  null and {} leave the zero
\* Claims; anything that is not a JSON value is an error.
Unmarshal(b) ==
    IF b = <<110, 117, 108, 108>> \/ b = <<123, 125>>
    THEN [ok |-> TRUE, c |-> ZeroClaims]
    ELSE IF Len(b) >= 2 /\ b[1] = 123 THEN object(b, 2, ZeroClaims)
    ELSE [ok |-> FALSE, c |-> ZeroClaims]

(***************************************************************************)
(* Roles and users (internal/auth/types.go).                               *)
(***************************************************************************)
\* "admin", "uploader", "viewer"
RoleAdmin == <<97, 100, 109, 105, 110>>
RoleUploader == <<117, 112, 108, 111, 97, 100, 101, 114>>
RoleViewer == <<118, 105, 101, 119, 101, 114>>

\* The identities tokens are generated for: one per role, and one whose role
\* ("guest") is not in the role table.  Their fields hold bytes that JSON
\* escapes ('"', '\', '<', '>') and their lengths give claims of every
\* length modulo 3 (every base64 padding).
Users ==
    { [ID |-> <<49>>, Name |-> <<97, 108>>, Email |-> <<97, 64, 120>>,
       Role |-> RoleAdmin],
      [ID |-> <<117, 34, 50>>, Name |-> <<98, 111, 98>>, Email |-> <<60, 98, 62>>,
       Role |-> RoleUploader],
      [ID |-> <<>>, Name |-> <<99, 92, 100>>, Email |-> <<118>>,
       Role |-> RoleViewer],
      [ID |-> <<52>>, Name |-> <<103>>, Email |-> <<103, 64>>,
       Role |-> <<103, 117, 101, 115, 116>>] }

(***************************************************************************)
(* TokenManager (the auth package's token code, in service/s3.go).         *)
(***************************************************************************)
\* cfg.Auth.Secret, the secret of the server's TokenManager: "k1".
AuthSecret == <<107, 49>>

\* The secrets a TokenManager is built with: the server's, "k2" and "k".
Secrets == { AuthSecret, <<107, 50>>, <<107>> }

\* NewTokenManager
NewTokenManager(secret) == [secret |-> secret]

\* HmacSum with the key left out of the digest.
HmacSumUnkeyed(key, msg) == msg

\* hmac.New(sha256.New, key), Write(msg), Sum(nil): the digest is an injective
\* encoding of the pair (keys hold no zero byte).
HmacSum(key, msg) == key \o <<0>> \o msg

\* What ValidateToken returns: a nil *Claims is <<>>, a pointer to c is <<c>>;
\* err is "" for a nil error.  steps lists the library calls made, in order.
Result(claims, err, steps) == [claims |-> claims, err |-> err, steps |-> steps]

\* The Claims GenerateToken builds: the clock is read as t1 for ExpiresAt and
\* then as t2 for IssuedAt.
NewClaims(user, expirationTime, t1, t2) ==
    [UserID |-> user.ID, Email |-> user.Email, Name |-> user.Name,
     Role |-> user.Role, ExpiresAt |-> t1 + expirationTime, IssuedAt |-> t2]

\* The token for marshalled claims: base64(claims) "." base64(hmac(claims)).
SignedToken(m, claimsJSON) ==
    LET signature == EncodeToString(HmacSum(m.secret, claimsJSON))
        encodedClaims == EncodeToString(claimsJSON)
    IN  encodedClaims \o <<46>> \o signature

\* GenerateToken signing the ttl of the call along with the claims.
GenerateTokenSigningTTL(m, user, expirationTime, t1, t2) ==
    LET claimsJSON == Marshal(NewClaims(user, expirationTime, t1, t2))
        signature == EncodeToString(HmacSum(m.secret,
                         claimsJSON \o <<48 + expirationTime + 1>>))
    IN  EncodeToString(claimsJSON) \o <<46>> \o signature

\* TokenManager.GenerateToken
GenerateToken(m, user, expirationTime, t1, t2) ==
    SignedToken(m, Marshal(NewClaims(user, expirationTime, t1, t2)))

\* hmac.Equal comparing only the bytes the first string has.
EqualUpToLen(a, b) == Len(a) <= Len(b) /\ a = SubSeq(b, 1, Len(a))

\* hmac.Equal
Equal(a, b) == a = b

\* Time.After
After(t, u) == t > u

\* ValidateToken from "Parse claims" on: deserialise the verified bytes, then
\* compare the clock t with claims.ExpiresAt.
ParseClaims(claimsJSON, t) ==
    LET parsed == Unmarshal(claimsJSON)
    IN  IF ~parsed.ok
        THEN Result(<<>>, "failed to parse claims",
                    <<"Split", "DecodeString", "hmac.Equal", "Unmarshal">>)
        ELSE IF After(t, parsed.c.ExpiresAt)
        THEN Result(<<>>, "token expired",
                    <<"Split", "DecodeString", "hmac.Equal", "Unmarshal", "After">>)
        ELSE Result(<<parsed.c>>, "",
                    <<"Split", "DecodeString", "hmac.Equal", "Unmarshal", "After">>)

\* VerifySignature with the comparison made after the claims are parsed and
\* their expiry checked.
VerifySignatureLast(m, claimsJSON, signature, t) ==
    LET parsed == ParseClaims(claimsJSON, t)
    IN  IF parsed.err # "" THEN parsed
        ELSE IF ~Equal(signature, EncodeToString(HmacSum(m.secret, claimsJSON)))
        THEN Result(<<>>, "invalid token signature",
                    <<"Split", "DecodeString", "hmac.Equal">>)
        ELSE parsed

\* VerifySignature without the comparison.
VerifySignatureSkipped(m, claimsJSON, signature, t) == ParseClaims(claimsJSON, t)

\* ValidateToken from "Verify signature" on: recompute the signature of the
\* decoded bytes and compare it with the token's signature segment.
VerifySignature(m, claimsJSON, signature, t) ==
    LET expectedSignature == EncodeToString(HmacSum(m.secret, claimsJSON))
    IN  IF ~Equal(signature, expectedSignature)
        THEN Result(<<>>, "invalid token signature",
                    <<"Split", "DecodeString", "hmac.Equal">>)
        ELSE ParseClaims(claimsJSON, t)

\* ValidateToken from "Decode claims" on.
DecodeClaims(m, encodedClaims, signature, t) ==
    LET decoded == DecodeString(encodedClaims)
    IN  IF ~decoded.ok
        THEN Result(<<>>, "failed to decode claims", <<"Split", "DecodeString">>)
        ELSE VerifySignature(m, decoded.bytes, signature, t)

\* ValidateToken asking for at least two parts, not exactly two.
ValidateTokenAtLeastTwoParts(m, tokenString, t) ==
    LET parts == Split(tokenString, 46)
    IN  IF Len(parts) < 2
        THEN Result(<<>>, "invalid token format", <<"Split">>)
        ELSE DecodeClaims(m, parts[1], parts[2], t)

\* TokenManager.ValidateToken, called when the clock reads t.
ValidateToken(m, tokenString, t) ==
    LET parts == Split(tokenString, 46)
    IN  IF Len(parts) # 2
        THEN Result(<<>>, "invalid token format", <<"Split">>)
        ELSE DecodeClaims(m, parts[1], parts[2], t)

\* ToUser with Name and Email exchanged.
ToUserSwapped(c) == [ID |-> c.UserID, Name |-> c.Email, Email |-> c.Name, Role |-> c.Role]

\* Claims.ToUser
ToUser(c) == [ID |-> c.UserID, Name |-> c.Name, Email |-> c.Email, Role |-> c.Role]

(***************************************************************************)
(* The request context (internal/auth/types.go) and the AuthMiddleware     *)
(* (internal/middleware/auth.go).                                          *)
(***************************************************************************)
\* A context.Context is the function from its keys to their values.
UserContextKey == "user"
Background == [k \in {} |-> <<>>]

\* SetUserInContext: context.WithValue(ctx, UserContextKey, user).
SetUserInContext(ctx, user) ==
    [k \in DOMAIN ctx \cup {UserContextKey} |->
        IF k = UserContextKey THEN <<user>> ELSE ctx[k]]

\* GetUserFromContext: the *User under UserContextKey, nil (<<>>) without one.
GetUserFromContext(ctx) ==
    IF UserContextKey \in DOMAIN ctx THEN ctx[UserContextKey] ELSE <<>>

\* A request: the auth_token cookie (<<>> when r.Cookie returns an error,
\* <<value>> otherwise), the Authorization header ("" when absent) and the
\* request's context.
Request(cookie, authorization) ==
    [cookie |-> cookie, authorization |-> authorization, ctx |-> Background]

\* What a middleware does with a request: it either answers it (http.Error,
\* next = FALSE) or calls next.ServeHTTP with the request r.  validated lists
\* the strings it passed to ValidateToken.
Answer(r, status, body, validated) ==
    [next |-> FALSE, status |-> status, body |-> body, r |-> r,
     validated |-> validated]
Forward(r, validated) ==
    [next |-> TRUE, status |-> 0, body |-> "", r |-> r, validated |-> validated]

\* "Bearer"
Bearer == <<66, 101, 97, 114, 101, 114>>

\* ValidateAndServe without the return after http.Error: next is called for a
\* refused token too.
ValidateAndServeNoReturn(tokenManager, r, tokenString, t, invalidBody) ==
    LET res == ValidateToken(tokenManager, tokenString, t)
    IN  [next |-> TRUE, status |-> IF res.err # "" THEN 401 ELSE 0,
         body |-> IF res.err # "" THEN invalidBody ELSE "",
         r |-> IF res.err # "" THEN r
               ELSE [r EXCEPT !.ctx = SetUserInContext(r.ctx, ToUser(res.claims[1]))],
         validated |-> <<tokenString>>]

\* ValidateAndServe that answers a refused token with the error's text.
ValidateAndServeErrorBody(tokenManager, r, tokenString, t, invalidBody) ==
    LET res == ValidateToken(tokenManager, tokenString, t)
    IN  IF res.err # ""
        THEN Answer(r, 401, res.err, <<tokenString>>)
        ELSE LET user == ToUser(res.claims[1])
             IN  Forward([r EXCEPT !.ctx = SetUserInContext(r.ctx, user)],
                         <<tokenString>>)

\* The tail of both AuthMiddleware versions: validate the token, attach the
\* user, call next; invalidBody is the body of the 401 for a bad token.
ValidateAndServe(tokenManager, r, tokenString, t, invalidBody) ==
    LET res == ValidateToken(tokenManager, tokenString, t)
    IN  IF res.err # ""
        THEN Answer(r, 401, invalidBody, <<tokenString>>)
        ELSE LET user == ToUser(res.claims[1])
             IN  Forward([r EXCEPT !.ctx = SetUserInContext(r.ctx, user)],
                         <<tokenString>>)

\* The Authorization header branch of both versions; the token is the second
\* of exactly two space-separated parts, the first being "Bearer".
FromAuthorizationHeader(tokenManager, r, t, invalidBody) ==
    LET authHeader == r.authorization
        parts == Split(authHeader, 32)
    IN  IF authHeader = <<>>
        THEN Answer(r, 401, "Unauthorized", <<>>)
        ELSE IF Len(parts) # 2 \/ parts[1] # Bearer
        THEN Answer(r, 401, "Invalid authorization header", <<>>)
        ELSE ValidateAndServe(tokenManager, r, parts[2], t, invalidBody)

\* AuthMiddleware with the carriers in the other order: the header first, the
\* cookie when there is no header.
AuthMiddlewareHeaderFirst(tokenManager, r, t) ==
    IF r.authorization # <<>> \/ r.cookie = <<>>
    THEN FromAuthorizationHeader(tokenManager, r, t, "Unauthorized")
    ELSE ValidateAndServe(tokenManager, r, r.cookie[1], t, "Unauthorized")

\* AuthMiddleware that goes on to the Authorization header when the cookie's
\* token is refused.
AuthMiddlewareWithFallback(tokenManager, r, t) ==
    IF r.cookie # <<>> /\ ValidateToken(tokenManager, r.cookie[1], t).err = ""
    THEN ValidateAndServe(tokenManager, r, r.cookie[1], t, "Unauthorized")
    ELSE FromAuthorizationHeader(tokenManager, r, t, "Unauthorized")

\* AuthMiddleware (internal/middleware/auth.go): the cookie first, the
\* Authorization header when there is no cookie.
AuthMiddleware(tokenManager, r, t) ==
    IF r.cookie # <<>>
    THEN ValidateAndServe(tokenManager, r, r.cookie[1], t, "Unauthorized")
    ELSE FromAuthorizationHeader(tokenManager, r, t, "Unauthorized")

\* AuthMiddleware, the header-only version of the same file.
AuthMiddlewareHeaderOnly(tokenManager, r, t) ==
    FromAuthorizationHeader(tokenManager, r, t, "Invalid token")

\* The handler behind the middleware: it answers 200 and reads the user from
\* the request's context (as GetDashboard does).  calls counts its
\* invocations, user is what it read; status and body are those of the
\* middleware's http.Error when it wrote one.
Serve(mw) ==
    [status |-> IF mw.status # 0 THEN mw.status ELSE 200,
     body |-> IF mw.status # 0 THEN mw.body ELSE "OK",
     calls |-> IF mw.next THEN 1 ELSE 0,
     user |-> IF mw.next THEN GetUserFromContext(mw.r.ctx) ELSE <<>>,
     ctx |-> mw.r.ctx,
     validated |-> mw.validated]

(***************************************************************************)
(* Permissions and the role table (internal/auth/types.go).                *)
(***************************************************************************)
\* The four capabilities of a Permission.
Capabilities == {"CanUpload", "CanView", "CanDelete", "CanManage"}

\* Permission{...}: the record with the four capabilities.
Permission(upload, view, delete, manage) ==
    [CanUpload |-> upload, CanView |-> view, CanDelete |-> delete,
     CanManage |-> manage]

\* PermissionMap in which admin has no CanManage.
PermissionMapAdminCannotManage ==
    (RoleAdmin :> Permission(TRUE, TRUE, TRUE, FALSE))
    @@ (RoleUploader :> Permission(TRUE, TRUE, FALSE, FALSE))
    @@ (RoleViewer :> Permission(FALSE, TRUE, FALSE, FALSE))

\* PermissionMap in which uploader has CanDelete.
PermissionMapUploaderDeletes ==
    (RoleAdmin :> Permission(TRUE, TRUE, TRUE, TRUE))
    @@ (RoleUploader :> Permission(TRUE, TRUE, TRUE, FALSE))
    @@ (RoleViewer :> Permission(FALSE, TRUE, FALSE, FALSE))

\* The map literal PermissionMap is initialised with.
PermissionMap ==
    (RoleAdmin :> Permission(TRUE, TRUE, TRUE, TRUE))
    @@ (RoleUploader :> Permission(TRUE, TRUE, FALSE, FALSE))
    @@ (RoleViewer :> Permission(FALSE, TRUE, FALSE, FALSE))

(***************************************************************************)
(* The state: the clock, the server's TokenManager, the token a client     *)
(* holds, and the call in progress with what it returned.                  *)
(***************************************************************************)
VARIABLES
    now,      \* time.Now()
    tm,       \* the server's *TokenManager (cmd/server/main.go)
    issued,   \* <<>>, or <<[token, user, ttl, key, claims]>>: the last token generated
    call,     \* [op |-> "none"], or the call made and its result
    db,       \* the users table: a function from id to row
    permissionMap   \* the package variable PermissionMap (internal/auth/types.go)

vars == <<now, tm, issued, call, db, permissionMap>>

\* The ttl values GenerateToken is called with.
TTLs == -1..MaxTTL

\* The two segments of a token made by GenerateToken.
ClaimsSegment(token) == Split(token, 46)[1]
SignatureSegment(token) == Split(token, 46)[2]

\* A base64 alphabet byte other than c: its 6-bit value with bit `bit` flipped
\* ('=' becomes 'A').
FlipBit(c, bit) ==
    LET v == decodeMap(c)
    IN  IF v = 255 THEN 65
        ELSE encodeStd[(IF (v \div bit) % 2 = 1 THEN v - bit ELSE v + bit) + 1]

\* token with its signature segment replaced: by nothing, by "A", with one
\* byte changed, with a byte made '.', lengthened, or by the signature any
\* other secret gives the same claims.
SignatureChanges(token) ==
    LET c == ClaimsSegment(token)
        sig == SignatureSegment(token)
        n == Len(sig)
        others ==
            { <<>>, <<65>>, SetByte(sig, n, FlipBit(sig[n], 1)),
              SetByte(sig, 1, FlipBit(sig[1], 32)), SetByte(sig, 2, 46),
              sig \o <<65>>, sig \o <<46, 65>> }
            \cup { EncodeToString(HmacSum(k, DecodeString(c).bytes)) : k \in Secrets }
    IN  { c \o <<46>> \o x : x \in others \ {sig} }

\* token with one byte of its claims segment changed (one of the first
\* MaxPos bytes, of the last four, or byte 17, which holds the high bits of
\* the first byte after {"user_id":"): to '.', to a byte
\* outside the base64 alphabet ('!'), to a line feed, or to the alphabet byte
\* whose value differs in the lowest or in the highest bit.
ClaimsChanges(token) ==
    LET n == Len(ClaimsSegment(token))
        at == { i \in 1..n : i <= MaxPos \/ i > n - 4 \/ i = 17 }
    IN  UNION { { SetByte(token, i, b) :
                    b \in {46, 33, 10, FlipBit(token[i], 1), FlipBit(token[i], 32)} } :
                  i \in at }
        \ {token}

\* Payloads that GenerateToken never signs: "x", "{", "{}", "null",
\* {"exp":"x"} and the claims {"exp":"<t - 1>"}, expired at t.
Payloads(t) ==
    { <<120>>, <<123>>, <<123, 125>>, <<110, 117, 108, 108>>,
      <<123, 34, 101, 120, 112, 34, 58, 34, 120, 34, 125>>,
      <<123, 34, 101, 120, 112, 34, 58>> \o TimeMarshalJSON(t - 1) \o <<125>> }

\* Tokens over those payloads, signed with any of the secrets.
Forged(t) == { SignedToken(NewTokenManager(k), p) : k \in Secrets, p \in Payloads(t) }

\* Strings that are no token: "", ".", "a.b.c", "abc", "!!.AAAA", "QQ==".
RawStrings ==
    { <<>>, <<46>>, <<97, 46, 98, 46, 99>>, <<97, 98, 99>>,
      <<33, 33, 46, 65, 65, 65, 65>>, <<81, 81, 61, 61>> }

\* The strings ValidateToken is called with at time t.
TokenInputs(t) ==
    RawStrings \cup Forged(t)
    \cup (IF issued = <<>> THEN {}
          ELSE {issued[1].token} \cup SignatureChanges(issued[1].token)
               \cup ClaimsChanges(issued[1].token))

\* Another client's token, valid at time t under the server's secret.
OtherClient ==
    [ID |-> <<55>>, Name |-> <<101, 118, 101>>, Email |-> <<101, 64, 121>>,
     Role |-> RoleViewer]
OtherToken(t) == GenerateToken(tm, OtherClient, 1, t, t)

\* The token values requests carry at time t.
CarriedTokens(t) ==
    { <<>>, OtherToken(t) }
    \cup (IF issued = <<>> THEN {}
          ELSE { issued[1].token })

\* The requests the middleware is given at time t: any cookie or none, with
\* any of: no Authorization header, "Bearer <token>", "Bearer", "Basic
\* <token>", "bearer <token>" and "Bearer  <token>" (two spaces).
Requests(t) ==
    LET cookies == { <<>> } \cup { <<v>> : v \in CarriedTokens(t) }
        headers ==
            { <<>>, Bearer }
            \cup { Bearer \o <<32>> \o v : v \in CarriedTokens(t) }
            \cup { <<66, 97, 115, 105, 99, 32>> \o OtherToken(t),
                   <<98, 101, 97, 114, 101, 114, 32>> \o OtherToken(t),
                   Bearer \o <<32, 32>> \o OtherToken(t) }
    IN  { Request(c, h) : c \in cookies, h \in headers }

\* hashPassword: the hex SHA-256 of the password, as an injective function
\* of it.
hashPassword(password) == <<36>> \o password

\* VerifyPassword
VerifyPassword(hashedPassword, plainPassword) ==
    hashPassword(plainPassword) = hashedPassword

\* A row of the users table (db.User); Password holds the hash.
Row(id, username, email, password, role) ==
    [ID |-> id, Username |-> username, Email |-> email,
     Password |-> hashPassword(password), Role |-> role]

\* demoUsers: the rows initializeDemoUsers creates, "admin", "uploader" and
\* "viewer", with the email <name>@example.com and the password <name>123.
demoUsers ==
    { Row(<<97, 100, 109, 105, 110>>,
          <<97, 100, 109, 105, 110>>,
          <<97, 100, 109, 105, 110, 64, 101, 120, 97, 109, 112, 108, 101, 46, 99, 111, 109>>,
          <<97, 100, 109, 105, 110, 49, 50, 51>>,
          RoleAdmin),
      Row(<<117, 112, 108, 111, 97, 100, 101, 114>>,
          <<117, 112, 108, 111, 97, 100, 101, 114>>,
          <<117, 112, 108, 111, 97, 100, 101, 114, 64, 101, 120, 97, 109, 112, 108, 101, 46, 99, 111, 109>>,
          <<117, 112, 108, 111, 97, 100, 101, 114, 49, 50, 51>>,
          RoleUploader),
      Row(<<118, 105, 101, 119, 101, 114>>,
          <<118, 105, 101, 119, 101, 114>>,
          <<118, 105, 101, 119, 101, 114, 64, 101, 120, 97, 109, 112, 108, 101, 46, 99, 111, 109>>,
          <<118, 105, 101, 119, 101, 114, 49, 50, 51>>,
          RoleViewer) }

\* The users table after initializeDemoUsers: the demo rows by id.
InitialStore == [id \in { row.ID : row \in demoUsers } |->
                    CHOOSE row \in demoUsers : row.ID = id]

Init ==
    /\ now = 9
    /\ tm = NewTokenManager(AuthSecret)
    /\ issued = <<>>
    /\ call = [op |-> "none"]
    /\ db = InitialStore
    /\ permissionMap = PermissionMap

\* The clock advances.
Tick ==
    /\ call.op = "none"
    /\ now < MaxTime
    /\ now' = now + 1
    /\ UNCHANGED <<tm, issued, call, db, permissionMap>>

\* A TokenManager with any of the secrets generates a token; the clock may
\* advance between GenerateToken's two readings of it.
GenerateTokenCall ==
    /\ call.op = "none"
    /\ \E s \in Secrets, user \in Users, ttl \in TTLs, skew \in 0..MaxSkew :
        /\ now + skew <= MaxTime
        /\ now' = now + skew
        /\ issued' = << [token |-> GenerateToken(NewTokenManager(s), user, ttl,
                                                 now, now + skew),
                         user |-> user, ttl |-> ttl, key |-> s,
                         claims |-> NewClaims(user, ttl, now, now + skew)] >>
    /\ UNCHANGED <<tm, call, db, permissionMap>>

\* The server's TokenManager validates a string.
ValidateTokenCall ==
    /\ call.op = "none"
    /\ \E input \in TokenInputs(now) :
        call' = [op |-> "ValidateToken", input |-> input, at |-> now,
                 res |-> ValidateToken(tm, input, now)]
    /\ UNCHANGED <<now, tm, issued, db, permissionMap>>

\* A request goes through AuthMiddleware to the handler behind it.
AuthMiddlewareCall ==
    /\ call.op = "none"
    /\ \E r \in Requests(now) :
        call' = [op |-> "AuthMiddleware", r |-> r, at |-> now,
                 res |-> Serve(AuthMiddleware(tm, r, now))]
    /\ UNCHANGED <<now, tm, issued, db, permissionMap>>

\* The same through the header-only version of the middleware.
AuthMiddlewareHeaderOnlyCall ==
    /\ call.op = "none"
    /\ \E r \in Requests(now) :
        call' = [op |-> "AuthMiddlewareHeaderOnly", r |-> r, at |-> now,
                 res |-> Serve(AuthMiddlewareHeaderOnly(tm, r, now))]
    /\ UNCHANGED <<now, tm, issued, db, permissionMap>>

\* The caller takes the result; the next call can be made.
Return ==
    /\ call.op # "none"
    /\ call' = [op |-> "none"]
    /\ UNCHANGED <<now, tm, issued, db, permissionMap>>

Next ==
    \/ Tick
    \/ GenerateTokenCall
    \/ ValidateTokenCall
    \/ AuthMiddlewareCall
    \/ AuthMiddlewareHeaderOnlyCall
    \/ Return

Spec == Init /\ [][Next]_vars

(***************************************************************************)
(* The outcomes of ValidateToken, by the error it returns.                 *)
(***************************************************************************)
Succeeds(res) == res.err = "" /\ res.claims # <<>>
InvalidFormat(res) ==
    res.claims = <<>> /\ res.err \in {"invalid token format", "failed to decode claims"}
InvalidSignature(res) == res.claims = <<>> /\ res.err = "invalid token signature"
MalformedClaims(res) == res.claims = <<>> /\ res.err = "failed to parse claims"
Expired(res) == res.claims = <<>> /\ res.err = "token expired"

\* The call in progress is ValidateToken on the issued token, unmodified.
ValidatesIssued ==
    /\ call.op = "ValidateToken"
    /\ issued # <<>>
    /\ call.input = issued[1].token

\* The issued token was signed with the server's secret.
IssuedByServer == issued # <<>> /\ issued[1].key = tm.secret

\* input is token with another signature segment, the claims segment and the
\* separator after it untouched.
SignatureChanged(input, token) ==
    LET n == Len(ClaimsSegment(token)) + 1
    IN  /\ Len(input) >= n
        /\ SubSeq(input, 1, n) = SubSeq(token, 1, n)
        /\ input # token

\* input is token with exactly one byte changed, inside the claims segment.
ClaimsByteChanged(input, token) ==
    /\ Len(input) = Len(token)
    /\ \E i \in 1..Len(ClaimsSegment(token)) :
        /\ input[i] # token[i]
        /\ \A j \in 1..Len(token) : j # i => input[j] = token[j]

(***************************************************************************)
(* C1.  Round trip: a token generated for identity u with a positive ttl   *)
(* and validated under the same secret before its expiry is accepted, and  *)
(* the claims returned carry u's id, email, name and role.                 *)
(***************************************************************************)
C1_RoundTrip ==
    ( /\ ValidatesIssued
      /\ IssuedByServer
      /\ issued[1].ttl > 0
      /\ call.at < issued[1].claims.ExpiresAt )
    => /\ Succeeds(call.res)
       /\ call.res.claims[1].UserID = issued[1].user.ID
       /\ call.res.claims[1].Email = issued[1].user.Email
       /\ call.res.claims[1].Name = issued[1].user.Name
       /\ call.res.claims[1].Role = issued[1].user.Role

\* An accepted round trip of an identity whose id holds a '"'.
C1_Witness ==
    /\ ValidatesIssued
    /\ IssuedByServer
    /\ issued[1].ttl > 0
    /\ call.at < issued[1].claims.ExpiresAt
    /\ \E i \in 1..Len(issued[1].user.ID) : issued[1].user.ID[i] = 34
    /\ Succeeds(call.res)

(***************************************************************************)
(* C2.  Expiry: a correctly signed token validated at any time             *)
(* now >= expires_at, the instant now = expires_at included, fails with    *)
(* Expired and returns no claims.                                          *)
(***************************************************************************)
C2_ExpiredFromExpiresAt ==
    ( /\ ValidatesIssued
      /\ IssuedByServer
      /\ call.at >= issued[1].claims.ExpiresAt )
    => Expired(call.res)

\* A token of positive ttl, validated at the instant of its expiry, is accepted.
C2_Witness ==
    /\ ValidatesIssued
    /\ IssuedByServer
    /\ issued[1].ttl > 0
    /\ call.at = issued[1].claims.ExpiresAt
    /\ Succeeds(call.res)

(***************************************************************************)
(* C3.  As claimed: changing the signature segment of a valid token to any *)
(* other value makes ValidateToken fail with InvalidSignature.             *)
(***************************************************************************)
C3_SignatureChangeIsInvalidSignature ==
    ( /\ call.op = "ValidateToken"
      /\ IssuedByServer
      /\ SignatureChanged(call.input, issued[1].token) )
    => InvalidSignature(call.res)

(***************************************************************************)
(* C3, amended.  Changing the signature segment of a valid token to any    *)
(* other value makes ValidateToken fail: with InvalidSignature when the    *)
(* new value holds no '.', with InvalidFormat ("invalid token format")     *)
(* when it does.  It never succeeds.                                       *)
(***************************************************************************)
C3_SignatureChangeFails ==
    ( /\ call.op = "ValidateToken"
      /\ IssuedByServer
      /\ SignatureChanged(call.input, issued[1].token) )
    => IF Len(Split(call.input, 46)) = 2
       THEN InvalidSignature(call.res)
       ELSE call.res.claims = <<>> /\ call.res.err = "invalid token format"

\* A valid token whose new signature segment holds a '.' is rejected for its
\* format.
C3_Witness ==
    /\ call.op = "ValidateToken"
    /\ IssuedByServer
    /\ SignatureChanged(call.input, issued[1].token)
    /\ Len(Split(call.input, 46)) = 3
    /\ call.res.err = "invalid token format"

(***************************************************************************)
(* C4.  As claimed: changing one byte of the claims segment of a valid     *)
(* token makes ValidateToken fail with InvalidSignature or MalformedClaims.*)
(***************************************************************************)
C4_ClaimsChangeIsSignatureOrMalformed ==
    ( /\ call.op = "ValidateToken"
      /\ IssuedByServer
      /\ ClaimsByteChanged(call.input, issued[1].token) )
    => InvalidSignature(call.res) \/ MalformedClaims(call.res)

(***************************************************************************)
(* C4, amended.  Changing one byte of the claims segment of a valid token  *)
(* never yields claims other than those signed.  ValidateToken fails with  *)
(* InvalidFormat (the byte became '.', or the segment is no longer         *)
(* base64), InvalidSignature or MalformedClaims, unless the segment still  *)
(* decodes to the signed bytes (only padding bits of the last base64 byte  *)
(* changed): then the token is treated as the unmodified one, accepted     *)
(* with the signed claims or Expired.                                      *)
(***************************************************************************)
C4_ClaimsChangeNeverAltersIdentity ==
    ( /\ call.op = "ValidateToken"
      /\ IssuedByServer
      /\ ClaimsByteChanged(call.input, issued[1].token) )
    => /\ call.res.claims # <<>> => call.res.claims[1] = issued[1].claims
       /\ \/ InvalidFormat(call.res)
          \/ InvalidSignature(call.res)
          \/ MalformedClaims(call.res)
          \/ /\ Len(Split(call.input, 46)) = 2
             /\ DecodeString(ClaimsSegment(call.input)).ok
             /\ DecodeString(ClaimsSegment(call.input)).bytes = Marshal(issued[1].claims)
             /\ Succeeds(call.res) \/ Expired(call.res)

\* A changed claims segment that is accepted, with the signed claims.
C4_Witness ==
    /\ call.op = "ValidateToken"
    /\ IssuedByServer
    /\ ClaimsByteChanged(call.input, issued[1].token)
    /\ Succeeds(call.res)
    /\ call.res.claims[1] = issued[1].claims

(***************************************************************************)
(* C5.  ValidateToken checks in the fixed order split, base64 decode,      *)
(* signature, deserialisation, expiry, and stops at the first failure: a   *)
(* wrongly signed token is rejected as InvalidSignature whether or not its *)
(* claims parse or are expired, and nothing is parsed or compared with the *)
(* clock before the signature has matched.                                 *)
(***************************************************************************)
CheckOrder == <<"Split", "DecodeString", "hmac.Equal", "Unmarshal", "After">>

\* input has two segments, the first is base64, and the second is not the
\* server's signature of the decoded bytes.
WronglySigned(input) ==
    LET parts == Split(input, 46)
    IN  /\ Len(parts) = 2
        /\ DecodeString(parts[1]).ok
        /\ parts[2] # EncodeToString(HmacSum(tm.secret, DecodeString(parts[1]).bytes))

C5_CheckOrder ==
    call.op = "ValidateToken" =>
        LET res == call.res
            n == Len(res.steps)
        IN  /\ n >= 1 /\ n <= 5
            /\ res.steps = SubSeq(CheckOrder, 1, n)
            /\ (n = 1) = (res.err = "invalid token format")
            /\ (n = 2) = (res.err = "failed to decode claims")
            /\ (n = 3) = (res.err = "invalid token signature")
            /\ (n = 4) = (res.err = "failed to parse claims")
            /\ (n = 5) = (res.err \in {"token expired", ""})
            /\ WronglySigned(call.input) => InvalidSignature(res) /\ n = 3

\* A token issued under another secret and already expired is rejected for
\* its signature.
C5_Witness ==
    /\ ValidatesIssued
    /\ WronglySigned(call.input)
    /\ call.at > issued[1].claims.ExpiresAt
    /\ InvalidSignature(call.res)

(***************************************************************************)
(* C6.  ValidateToken returns claims or an error for every string: one     *)
(* that does not split on '.' into exactly two parts, or whose claims part *)
(* is not base64, is rejected with InvalidFormat before any signature is   *)
(* computed.                                                               *)
(***************************************************************************)
C6_MalformedInputIsInvalidFormat ==
    call.op = "ValidateToken" =>
        LET res == call.res
            parts == Split(call.input, 46)
        IN  /\ Succeeds(res) \/ (res.claims = <<>> /\ res.err # "")
            /\ Len(parts) # 2 =>
                 /\ res.claims = <<>>
                 /\ res.err = "invalid token format"
                 /\ res.steps = <<"Split">>
            /\ (Len(parts) = 2 /\ ~DecodeString(parts[1]).ok) =>
                 /\ res.claims = <<>>
                 /\ res.err = "failed to decode claims"
                 /\ res.steps = <<"Split", "DecodeString">>

\* A valid token followed by ".A", three parts, is rejected for its format.
C6_Witness ==
    /\ call.op = "ValidateToken"
    /\ IssuedByServer
    /\ call.input = issued[1].token \o <<46, 65>>
    /\ call.at <= issued[1].claims.ExpiresAt
    /\ InvalidFormat(call.res)

(***************************************************************************)
(* C7.  A token generated by a TokenManager with one secret and validated  *)
(* by a TokenManager with a different secret fails with InvalidSignature,  *)
(* whatever its claims and expiry.                                         *)
(***************************************************************************)
C7_OtherSecretIsInvalidSignature ==
    (ValidatesIssued /\ issued[1].key # tm.secret) => InvalidSignature(call.res)

\* A token of another secret, not yet expired, is rejected for its signature.
C7_Witness ==
    /\ ValidatesIssued
    /\ issued[1].key # tm.secret
    /\ call.at < issued[1].claims.ExpiresAt
    /\ InvalidSignature(call.res)

(***************************************************************************)
(* The middleware's calls.                                                 *)
(***************************************************************************)
\* The call in progress is a request through either AuthMiddleware.
InMiddleware == call.op \in {"AuthMiddleware", "AuthMiddlewareHeaderOnly"}

\* What ValidateToken returns for the string the middleware passed to it.
Validation == ValidateToken(tm, call.res.validated[1], call.at)

\* The Authorization header h is "Bearer ", then a token without a space:
\* <<token>>, or <<>> for any other header.
BearerToken(h) ==
    IF /\ Len(h) >= 7
       /\ SubSeq(h, 1, 7) = Bearer \o <<32>>
       /\ \A i \in 8..Len(h) : h[i] # 32
    THEN <<SubSeq(h, 8, Len(h))>>
    ELSE <<>>

(***************************************************************************)
(* C8.  AuthMiddleware rejection: a request with neither the auth_token    *)
(* cookie nor an Authorization header, or whose token ValidateToken        *)
(* refuses, is answered 401; the handler is not invoked and no identity is *)
(* attached to the request's context.                                      *)
(***************************************************************************)
C8_Rejection ==
    ( /\ InMiddleware
      /\ \/ call.r.cookie = <<>> /\ call.r.authorization = <<>>
         \/ call.res.validated # <<>> /\ Validation.err # "" )
    => /\ call.res.status = 401
       /\ call.res.calls = 0
       /\ GetUserFromContext(call.res.ctx) = <<>>

\* A request whose cookie holds the issued token, refused by ValidateToken, is
\* answered 401.
C8_Witness ==
    /\ InMiddleware
    /\ issued # <<>>
    /\ call.r.cookie = <<issued[1].token>>
    /\ call.res.validated = <<issued[1].token>>
    /\ Validation.err # ""
    /\ call.res.status = 401
    /\ call.res.calls = 0

(***************************************************************************)
(* C9.  AuthMiddleware success: when the presented token validates, the    *)
(* handler is invoked once, and the identity it reads from the context has *)
(* the id, name, email and role of the validated claims.                   *)
(***************************************************************************)
C9_Success ==
    (InMiddleware /\ call.res.validated # <<>>) =>
        LET res == Validation
        IN  res.err = "" =>
              /\ call.res.calls = 1
              /\ call.res.user # <<>>
              /\ call.res.user[1].ID = res.claims[1].UserID
              /\ call.res.user[1].Name = res.claims[1].Name
              /\ call.res.user[1].Email = res.claims[1].Email
              /\ call.res.user[1].Role = res.claims[1].Role

\* The issued token, presented and valid: the handler reads its user.
C9_Witness ==
    /\ InMiddleware
    /\ issued # <<>>
    /\ call.res.validated = <<issued[1].token>>
    /\ Validation.err = ""
    /\ call.res.calls = 1
    /\ call.res.user = <<issued[1].user>>

(***************************************************************************)
(* C10.  Carrier policy: AuthMiddleware takes the token from the           *)
(* auth_token cookie when the cookie is present and from the               *)
(* "Authorization: Bearer <token>" header only when it is absent; a        *)
(* request with a valid token in either carrier alone is authenticated.    *)
(***************************************************************************)
C10_CarrierPolicy ==
    call.op = "AuthMiddleware" =>
        LET r == call.r
            res == call.res
        IN  /\ r.cookie # <<>> => res.validated = r.cookie
            /\ (r.cookie = <<>> /\ BearerToken(r.authorization) # <<>>) =>
                 res.validated = BearerToken(r.authorization)
            /\ ( /\ r.cookie # <<>>
                 /\ r.authorization = <<>>
                 /\ ValidateToken(tm, r.cookie[1], call.at).err = "" )
               => res.calls = 1 /\ res.user # <<>>
            /\ ( /\ r.cookie = <<>>
                 /\ BearerToken(r.authorization) # <<>>
                 /\ ValidateToken(tm, BearerToken(r.authorization)[1], call.at).err = "" )
               => res.calls = 1 /\ res.user # <<>>

\* Two valid tokens of different users, one in each carrier: the handler
\* reads the cookie's user.
C10_Witness ==
    /\ call.op = "AuthMiddleware"
    /\ issued # <<>>
    /\ call.r.cookie = <<issued[1].token>>
    /\ call.r.authorization = Bearer \o <<32>> \o OtherToken(call.at)
    /\ call.res.calls = 1
    /\ call.res.user = <<issued[1].user>>
    /\ issued[1].user.ID # OtherClient.ID

(***************************************************************************)
(* HasPermission (internal/auth/types.go) and the two guards, RequireRole  *)
(* and RequirePermission (internal/middleware/auth.go).                    *)
(***************************************************************************)
\* PermissionMap[role]: the entry of role, the zero Permission for a role
\* that has none.
PermissionMapIndex(role) ==
    IF role \in DOMAIN permissionMap THEN permissionMap[role]
    ELSE Permission(FALSE, FALSE, FALSE, FALSE)

\* HasPermission that never looks at CanDelete.
HasPermissionWithoutDelete(u, perm) ==
    IF perm.CanUpload /\ ~PermissionMapIndex(u.Role).CanUpload THEN FALSE
    ELSE IF perm.CanView /\ ~PermissionMapIndex(u.Role).CanView THEN FALSE
    ELSE IF perm.CanManage /\ ~PermissionMapIndex(u.Role).CanManage THEN FALSE
    ELSE TRUE

\* HasPermission that grants everything to a role without an entry.
HasPermissionUnknownGranted(u, perm) ==
    IF u.Role \notin DOMAIN permissionMap THEN TRUE
    ELSE \A c \in Capabilities : perm[c] => permissionMap[u.Role][c]

\* User.HasPermission
HasPermission(u, perm) ==
    IF perm.CanUpload /\ ~PermissionMapIndex(u.Role).CanUpload THEN FALSE
    ELSE IF perm.CanView /\ ~PermissionMapIndex(u.Role).CanView THEN FALSE
    ELSE IF perm.CanDelete /\ ~PermissionMapIndex(u.Role).CanDelete THEN FALSE
    ELSE IF perm.CanManage /\ ~PermissionMapIndex(u.Role).CanManage THEN FALSE
    ELSE TRUE

\* RequireRole without the admin override.
RequireRoleExact(role, r) ==
    LET user == GetUserFromContext(r.ctx)
    IN  IF user = <<>>
        THEN Answer(r, 401, "Unauthorized", <<>>)
        ELSE IF user[1].Role # role
        THEN Answer(r, 403, "Forbidden", <<>>)
        ELSE Forward(r, <<>>)

\* RequireRole without the return after the 403: next is called as well.
RequireRoleNoReturn(role, r) ==
    LET user == GetUserFromContext(r.ctx)
    IN  IF user = <<>>
        THEN Answer(r, 401, "Unauthorized", <<>>)
        ELSE IF user[1].Role # RoleAdmin /\ user[1].Role # role
        THEN [next |-> TRUE, status |-> 403, body |-> "Forbidden", r |-> r,
              validated |-> <<>>]
        ELSE Forward(r, <<>>)

\* RequireRole(role) applied to request r.
RequireRole(role, r) ==
    LET user == GetUserFromContext(r.ctx)
    IN  IF user = <<>>
        THEN Answer(r, 401, "Unauthorized", <<>>)
        ELSE IF user[1].Role # RoleAdmin /\ user[1].Role # role
        THEN Answer(r, 403, "Forbidden", <<>>)
        ELSE Forward(r, <<>>)

\* RequirePermission that lets every identity through.
RequirePermissionUnchecked(perm, r) ==
    LET user == GetUserFromContext(r.ctx)
    IN  IF user = <<>>
        THEN Answer(r, 401, "Unauthorized", <<>>)
        ELSE Forward(r, <<>>)

\* RequirePermission(perm) applied to request r.
RequirePermission(perm, r) ==
    LET user == GetUserFromContext(r.ctx)
    IN  IF user = <<>>
        THEN Answer(r, 401, "Unauthorized", <<>>)
        ELSE IF ~HasPermission(user[1], perm)
        THEN Answer(r, 403, "Forbidden", <<>>)
        ELSE Forward(r, <<>>)

(***************************************************************************)
(* The guards and HasPermission called on their own: every identity        *)
(* against every permission request and every required role.               *)
(***************************************************************************)
\* Every Permission value.
Permissions ==
    [CanUpload : BOOLEAN, CanView : BOOLEAN, CanDelete : BOOLEAN,
     CanManage : BOOLEAN]

\* "guest", a role without an entry in PermissionMap.
RoleGuest == <<103, 117, 101, 115, 116>>

\* The roles a guard is built for.
RequiredRoles == {RoleAdmin, RoleUploader, RoleViewer, RoleGuest}

\* The identities a context carries: Users (one per role, and a "guest"),
\* one with the role "" and one with the role "Admin".
Identities ==
    Users
    \cup { [ID |-> <<53>>, Name |-> <<110>>, Email |-> <<110, 64>>,
            Role |-> <<>>],
           [ID |-> <<54>>, Name |-> <<65>>, Email |-> <<65, 64>>,
            Role |-> <<65, 100, 109, 105, 110>>] }

\* The requests a guard is given: without an identity in the context, or
\* with one put there by SetUserInContext.
GuardRequests ==
    { Request(<<>>, <<>>) }
    \cup { [Request(<<>>, <<>>) EXCEPT !.ctx = SetUserInContext(Background, u)] :
             u \in Identities }

\* u.HasPermission(perm)
HasPermissionCall ==
    /\ call.op = "none"
    /\ \E u \in Identities, perm \in Permissions :
        call' = [op |-> "HasPermission", u |-> u, perm |-> perm,
                 res |-> HasPermission(u, perm)]
    /\ UNCHANGED <<now, tm, issued, db, permissionMap>>

\* A request goes through RequireRole(role) to the handler behind it.
RequireRoleCall ==
    /\ call.op = "none"
    /\ \E role \in RequiredRoles, r \in GuardRequests :
        call' = [op |-> "RequireRole", role |-> role, r |-> r,
                 res |-> Serve(RequireRole(role, r))]
    /\ UNCHANGED <<now, tm, issued, db, permissionMap>>

\* A request goes through RequirePermission(perm) to the handler behind it.
RequirePermissionCall ==
    /\ call.op = "none"
    /\ \E perm \in Permissions, r \in GuardRequests :
        call' = [op |-> "RequirePermission", perm |-> perm, r |-> r,
                 res |-> Serve(RequirePermission(perm, r))]
    /\ UNCHANGED <<now, tm, issued, db, permissionMap>>

GuardNext ==
    \/ HasPermissionCall
    \/ RequireRoleCall
    \/ RequirePermissionCall
    \/ Return

GuardSpec == Init /\ [][GuardNext]_vars

\* The identity in the context of the request the guard was given.
Identity == GetUserFromContext(call.r.ctx)

\* The guard called the handler, which answered 200 and read the identity
\* the request came with.
PassedThrough ==
    /\ call.res.calls = 1
    /\ call.res.status = 200
    /\ call.res.user = Identity

\* The guard answered with status and did not call the handler.
Stopped(status) ==
    /\ call.res.calls = 0
    /\ call.res.status = status

(***************************************************************************)
(* C11.  RequireRole(required): without an identity in the context the     *)
(* answer is 401; with one, the handler is invoked iff its role is admin   *)
(* or required, and otherwise the answer is 403 and the handler is not     *)
(* invoked.                                                                *)
(***************************************************************************)
C11_RequireRole ==
    call.op = "RequireRole" =>
        IF Identity = <<>> THEN Stopped(401)
        ELSE IF Identity[1].Role = RoleAdmin \/ Identity[1].Role = call.role
        THEN PassedThrough
        ELSE Stopped(403)

\* An uploader is forbidden by RequireRole(admin).
C11_Witness ==
    /\ call.op = "RequireRole"
    /\ call.role = RoleAdmin
    /\ Identity # <<>>
    /\ Identity[1].Role = RoleUploader
    /\ Stopped(403)

(***************************************************************************)
(* C12.  RequirePermission(requested): without an identity in the context  *)
(* the answer is 401; with one, the handler is invoked iff HasPermission   *)
(* of the identity for requested is true, and otherwise the answer is 403  *)
(* and the handler is not invoked.                                         *)
(***************************************************************************)
C12_RequirePermission ==
    call.op = "RequirePermission" =>
        IF Identity = <<>> THEN Stopped(401)
        ELSE IF HasPermission(Identity[1], call.perm) THEN PassedThrough
        ELSE Stopped(403)

\* A viewer asking for CanView and CanDelete is forbidden.
C12_Witness ==
    /\ call.op = "RequirePermission"
    /\ call.perm = Permission(FALSE, TRUE, TRUE, FALSE)
    /\ Identity # <<>>
    /\ Identity[1].Role = RoleViewer
    /\ Stopped(403)

(***************************************************************************)
(* C13.  HasPermission(role, requested) is true exactly when every         *)
(* capability set in requested is set in the role's entry of the           *)
(* permission map; capabilities not set in requested are ignored, so the   *)
(* all-false request is satisfied by any role.                             *)
(***************************************************************************)
C13_HasPermission ==
    call.op = "HasPermission" =>
        /\ call.res =
             (\A c \in Capabilities :
                 call.perm[c] => PermissionMapIndex(call.u.Role)[c])
        /\ call.perm = Permission(FALSE, FALSE, FALSE, FALSE) => call.res

\* The all-false request is granted to a role without an entry.
C13_Witness ==
    /\ call.op = "HasPermission"
    /\ call.perm = Permission(FALSE, FALSE, FALSE, FALSE)
    /\ call.u.Role = RoleGuest
    /\ call.res

\* The role is none of admin, uploader, viewer.
UnknownRole(role) == role \notin {RoleAdmin, RoleUploader, RoleViewer}

(***************************************************************************)
(* C14.  As claimed: for an identity whose role is none of admin,          *)
(* uploader, viewer, every permission request is denied and                *)
(* RequirePermission never lets the identity through.                      *)
(***************************************************************************)
C14_UnknownRoleAlwaysDenied ==
    /\ (call.op = "HasPermission" /\ UnknownRole(call.u.Role)) => ~call.res
    /\ ( /\ call.op = "RequirePermission"
         /\ Identity # <<>>
         /\ UnknownRole(Identity[1].Role) )
       => Stopped(403)

(***************************************************************************)
(* C14, amended.  For an identity whose role is none of admin, uploader,   *)
(* viewer, HasPermission returns a value for every request: false for      *)
(* every request that sets at least one capability, true for the all-false *)
(* request only.  RequirePermission answers such an identity 403 for every *)
(* request that sets a capability and lets it through only for the         *)
(* all-false request.                                                      *)
(***************************************************************************)
C14_UnknownRoleFailsClosed ==
    /\ (call.op = "HasPermission" /\ UnknownRole(call.u.Role)) =>
          /\ call.res \in BOOLEAN
          /\ call.res = (call.perm = Permission(FALSE, FALSE, FALSE, FALSE))
    /\ ( /\ call.op = "RequirePermission"
         /\ Identity # <<>>
         /\ UnknownRole(Identity[1].Role) )
       => IF call.perm = Permission(FALSE, FALSE, FALSE, FALSE)
          THEN PassedThrough
          ELSE Stopped(403)

\* A "guest" identity is let through by RequirePermission of the all-false
\* request.
C14_Witness ==
    /\ call.op = "RequirePermission"
    /\ Identity # <<>>
    /\ Identity[1].Role = RoleGuest
    /\ call.perm = Permission(FALSE, FALSE, FALSE, FALSE)
    /\ PassedThrough

\* user with the role admin.
AsAdmin(user) == [user EXCEPT !.Role = RoleAdmin]

(***************************************************************************)
(* C15.  Admin dominance: HasPermission(admin, p) is true for every        *)
(* request p, so it is true whenever it is for uploader or viewer; every   *)
(* RequireRole guard that passes an uploader or a viewer passes an admin.  *)
(***************************************************************************)
C15_AdminDominance ==
    /\ call.op = "HasPermission" =>
          /\ HasPermission(AsAdmin(call.u), call.perm)
          /\ call.u.Role = RoleAdmin => call.res
    /\ ( /\ call.op = "RequireRole"
         /\ Identity # <<>>
         /\ Identity[1].Role \in {RoleUploader, RoleViewer}
         /\ PassedThrough )
       => LET r == [call.r EXCEPT
                       !.ctx = SetUserInContext(Background, AsAdmin(Identity[1]))]
          IN  Serve(RequireRole(call.role, r)).calls = 1

\* An admin is granted the request of all four capabilities.
C15_Witness ==
    /\ call.op = "HasPermission"
    /\ call.u.Role = RoleAdmin
    /\ call.perm = Permission(TRUE, TRUE, TRUE, TRUE)
    /\ call.res

(***************************************************************************)
(* C16.  The role table: viewer satisfies {can_view} and not {can_upload}; *)
(* uploader satisfies {can_upload, can_view} and not {can_delete}; neither *)
(* viewer nor uploader satisfies {can_manage}.                             *)
(***************************************************************************)
C16_RoleTable ==
    call.op = "HasPermission" =>
        /\ (call.u.Role = RoleViewer /\ call.perm = Permission(FALSE, TRUE, FALSE, FALSE))
              => call.res
        /\ (call.u.Role = RoleViewer /\ call.perm = Permission(TRUE, FALSE, FALSE, FALSE))
              => ~call.res
        /\ (call.u.Role = RoleUploader /\ call.perm = Permission(TRUE, TRUE, FALSE, FALSE))
              => call.res
        /\ (call.u.Role = RoleUploader /\ call.perm = Permission(FALSE, FALSE, TRUE, FALSE))
              => ~call.res
        /\ (call.u.Role \in {RoleViewer, RoleUploader} /\ call.perm.CanManage)
              => ~call.res

\* An uploader is refused {can_delete}.
C16_Witness ==
    /\ call.op = "HasPermission"
    /\ call.u.Role = RoleUploader
    /\ call.perm = Permission(FALSE, FALSE, TRUE, FALSE)
    /\ ~call.res

(***************************************************************************)
(* The server (cmd/server/main.go): the route table, the middleware chain  *)
(* of each route and the handlers behind it.                               *)
(***************************************************************************)
\* A middleware of a chain: AuthMiddleware (either version), RequireRole(role)
\* or RequirePermission(perm).
Middleware(kind, role, perm) == [kind |-> kind, role |-> role, perm |-> perm]
UseAuthMiddleware ==
    Middleware("AuthMiddleware", <<>>, Permission(FALSE, FALSE, FALSE, FALSE))
UseAuthMiddlewareHeaderOnly ==
    Middleware("AuthMiddlewareHeaderOnly", <<>>, Permission(FALSE, FALSE, FALSE, FALSE))
UseRequireRole(role) ==
    Middleware("RequireRole", role, Permission(FALSE, FALSE, FALSE, FALSE))
UseRequirePermission(perm) == Middleware("RequirePermission", <<>>, perm)

\* A route: its method and pattern, the middlewares in front of its handler,
\* in order, and the handler.
Route(method, pattern, chain, handler) ==
    [method |-> method, pattern |-> pattern, chain |-> chain, handler |-> handler]

\* The routes without middleware.
PublicRoutes ==
    { Route("GET", "/", <<>>, "GetIndex"),
      Route("GET", "/login", <<>>, "GetLogin"),
      Route("GET", "/health", <<>>, "HealthCheck"),
      Route("POST", "/api/auth/login", <<>>, "LoginHandler") }

\* The routes of the group that uses AuthMiddleware; those under /api/admin
\* also use RequireRole(RoleAdmin).
ProtectedRoutes ==
    { Route("GET", "/dashboard", <<UseAuthMiddleware>>, "GetDashboard"),
      Route("GET", "/api/files", <<UseAuthMiddleware>>, "ListFiles"),
      Route("POST", "/api/upload", <<UseAuthMiddleware>>, "UploadFile"),
      Route("GET", "/api/download", <<UseAuthMiddleware>>, "DownloadFile"),
      Route("DELETE", "/api/files", <<UseAuthMiddleware>>, "DeleteFile"),
      Route("GET", "/api/admin/users",
            <<UseAuthMiddleware, UseRequireRole(RoleAdmin)>>, "GetUsers"),
      Route("DELETE", "/api/admin/users/{id}",
            <<UseAuthMiddleware, UseRequireRole(RoleAdmin)>>, "DeleteUser") }

\* The route table of main.
RouteTable == PublicRoutes \cup ProtectedRoutes

\* Chains a router can build from the same middlewares, in front of a plain
\* handler: each guard behind each version of AuthMiddleware.
GuardedChains ==
    { Route("GET", "/guarded/role",
            <<UseAuthMiddleware, UseRequireRole(RoleUploader)>>, "next"),
      Route("GET", "/guarded/permission",
            <<UseAuthMiddleware,
              UseRequirePermission(Permission(TRUE, FALSE, FALSE, FALSE))>>, "next"),
      Route("GET", "/guarded/header-only",
            <<UseAuthMiddlewareHeaderOnly,
              UseRequirePermission(Permission(FALSE, TRUE, TRUE, FALSE))>>, "next") }

\* 24*time.Hour, the ttl of the tokens LoginHandler generates: one unit of
\* the clock.
SessionTTL == 1

\* The auth.User LoginHandler builds from a row.
UserOfRow(row) ==
    [ID |-> row.ID, Name |-> row.Username, Email |-> row.Email, Role |-> row.Role]

\* What a handler returns: the response it wrote and the store and the
\* issued token after it.
Handled(status, body, store, token) ==
    [status |-> status, body |-> body, db |-> store, issued |-> token]

\* LoginHandler without the password check.
LoginHandlerWithoutVerifyPassword(body, t) ==
    IF body = <<>> THEN Handled(400, "invalid request", db, issued)
    ELSE LET rows == { id \in DOMAIN db : db[id].Username = body[1].Username }
         IN  IF rows = {}
             THEN Handled(401, "invalid username or password", db, issued)
             ELSE LET user == UserOfRow(db[CHOOSE id \in rows : TRUE])
                  IN  Handled(200, "token", db,
                              << [token |-> GenerateToken(tm, user, SessionTTL, t, t),
                                  user |-> user, ttl |-> SessionTTL,
                                  key |-> tm.secret,
                                  claims |-> NewClaims(user, SessionTTL, t, t)] >>)

\* LoginHandler: body is <<>> for a body json cannot decode, else
\* <<[Username, Password]>>.
LoginHandler(body, t) ==
    IF body = <<>> THEN Handled(400, "invalid request", db, issued)
    ELSE LET rows == { id \in DOMAIN db : db[id].Username = body[1].Username }
         IN  IF rows = {}
             THEN Handled(401, "invalid username or password", db, issued)
             ELSE LET dbUser == db[CHOOSE id \in rows : TRUE]
                      user == UserOfRow(dbUser)
                  IN  IF ~VerifyPassword(dbUser.Password, body[1].Password)
                      THEN Handled(401, "invalid username or password", db, issued)
                      ELSE Handled(200, "token", db,
                                   << [token |-> GenerateToken(tm, user, SessionTTL, t, t),
                                       user |-> user, ttl |-> SessionTTL,
                                       key |-> tm.secret,
                                       claims |-> NewClaims(user, SessionTTL, t, t)] >>)

\* AdminHandler.GetUsers
GetUsers(r) ==
    LET user == GetUserFromContext(r.ctx)
    IN  IF user = <<>> \/ user[1].Role # RoleAdmin
        THEN Handled(403, "unauthorized", db, issued)
        ELSE Handled(200, "users", db, issued)

\* DeleteUser without the rule against deleting oneself.
DeleteUserSelfAllowed(r, userId) ==
    LET user == GetUserFromContext(r.ctx)
    IN  IF user = <<>> \/ user[1].Role # RoleAdmin
        THEN Handled(403, "unauthorized", db, issued)
        ELSE IF userId \notin DOMAIN db
        THEN Handled(404, "user not found", db, issued)
        ELSE Handled(200, "user deleted",
                     [id \in DOMAIN db \ {userId} |-> db[id]], issued)

\* AdminHandler.DeleteUser; userId is the rest of the path after
\* /api/admin/users/.
DeleteUser(r, userId) ==
    LET user == GetUserFromContext(r.ctx)
    IN  IF user = <<>> \/ user[1].Role # RoleAdmin
        THEN Handled(403, "unauthorized", db, issued)
        ELSE IF userId = user[1].ID
        THEN Handled(400, "cannot delete yourself", db, issued)
        ELSE IF userId \notin DOMAIN db
        THEN Handled(404, "user not found", db, issued)
        ELSE Handled(200, "user deleted",
                     [id \in DOMAIN db \ {userId} |-> db[id]], issued)

\* GetIndex and GetDashboard: a redirect to /login without a user in the
\* context; with one, GetIndex redirects to /dashboard and GetDashboard
\* renders the page.
GetIndex(r) ==
    IF GetUserFromContext(r.ctx) = <<>>
    THEN Handled(303, "/login", db, issued)
    ELSE Handled(303, "/dashboard", db, issued)
GetDashboard(r) ==
    IF GetUserFromContext(r.ctx) = <<>>
    THEN Handled(303, "/login", db, issued)
    ELSE Handled(200, "dashboard", db, issued)

\* The handler of a route.  The file handlers, GetLogin and HealthCheck read
\* nothing of the identity; what they answer is the object store's business
\* and is 200 here.
Handle(handler, r, arg, t) ==
    CASE handler = "LoginHandler" -> LoginHandler(arg, t)
      [] handler = "GetUsers" -> GetUsers(r)
      [] handler = "DeleteUser" -> DeleteUser(r, arg)
      [] handler = "GetIndex" -> GetIndex(r)
      [] handler = "GetDashboard" -> GetDashboard(r)
      [] OTHER -> Handled(200, handler, db, issued)

(***************************************************************************)
(* The requests the server receives.                                       *)
(***************************************************************************)
\* The body of a login request.
Credentials(username, password) == [Username |-> username, Password |-> password]

\* The login bodies: one json cannot decode, the three demo users with their
\* passwords, "admin" with a wrong password and a user that does not exist.
LoginBodies ==
    { <<>>,
      <<Credentials(<<97, 100, 109, 105, 110>>, <<97, 100, 109, 105, 110, 49, 50, 51>>)>>,
      <<Credentials(<<117, 112, 108, 111, 97, 100, 101, 114>>, <<117, 112, 108, 111, 97, 100, 101, 114, 49, 50, 51>>)>>,
      <<Credentials(<<118, 105, 101, 119, 101, 114>>, <<118, 105, 101, 119, 101, 114, 49, 50, 51>>)>>,
      <<Credentials(<<97, 100, 109, 105, 110>>, <<119, 114, 111, 110, 103>>)>>,
      <<Credentials(<<110, 111, 98, 111, 100, 121>>, <<97, 100, 109, 105, 110, 49, 50, 51>>)>> }

\* The token of a session of the demo admin, generated at time t.
AdminSession(t) ==
    GenerateToken(tm, UserOfRow(InitialStore[<<97, 100, 109, 105, 110>>]), SessionTTL, t, t)

\* Tokens AuthMiddleware refuses at time t: "" (format), "!!.AAAA" (claims
\* that are no base64), a session of the demo viewer that has expired, the
\* same session signed with another secret, and a signed payload that is no
\* claims object.
RejectedTokens(t) ==
    { <<>>,
      <<33, 33, 46, 65, 65, 65, 65>>,
      GenerateToken(tm, UserOfRow(InitialStore[<<118, 105, 101, 119, 101, 114>>]), SessionTTL,
                    t - SessionTTL - 1, t - SessionTTL - 1),
      GenerateToken(NewTokenManager(<<107, 50>>), UserOfRow(InitialStore[<<118, 105, 101, 119, 101, 114>>]),
                    SessionTTL, t, t),
      SignedToken(tm, <<123>>) }

\* A request that carries token in the cookie, and one that carries it in the
\* Authorization header.
Carriers(token) ==
    { Request(<<token>>, <<>>), Request(<<>>, Bearer \o <<32>> \o token) }

\* The requests of a client without a token, of the holder of the issued
\* token and of the demo admin.
ClientRequests(t) ==
    { Request(<<>>, <<>>), Request(<<AdminSession(t)>>, <<>>) }
    \cup (IF issued = <<>> THEN {} ELSE Carriers(issued[1].token))

\* The requests with a token that is refused, and one whose Authorization
\* header is "Bearer a b".
RejectedRequests(t) ==
    UNION { Carriers(token) : token \in RejectedTokens(t) }
    \cup { Request(<<>>, Bearer \o <<32, 97, 32, 98>>) }

\* What a request brings for the handler of its route: the id in the path of
\* DELETE /api/admin/users/{id}, the body of a login.
Args(route) ==
    CASE route.handler = "DeleteUser" ->
             { <<97, 100, 109, 105, 110>>, <<110, 111, 98, 111, 100, 121>> }
             \cup (IF issued = <<>> THEN {} ELSE { issued[1].user.ID })
      [] route.handler = "LoginHandler" -> LoginBodies
      [] OTHER -> { <<>> }

\* The chains requests arrive for: the route table and the guarded chains.
Chains == RouteTable \cup GuardedChains

\* The requests that arrive at time t: every chain with the client requests,
\* and GET /dashboard and the header-only chain with the refused tokens.
Arrivals(t) ==
    UNION { { [route |-> route, r |-> r, arg |-> arg] :
                r \in ClientRequests(t), arg \in Args(route) } :
            route \in Chains }
    \cup { [route |-> route, r |-> r, arg |-> <<>>] :
             route \in { x \in Chains :
                           x.pattern \in {"/dashboard", "/guarded/header-only"} },
             r \in RejectedRequests(t) }

\* The rows of the users table deleted or changed since initializeDemoUsers.
StoreChanges ==
    Cardinality({ id \in DOMAIN InitialStore :
                    id \notin DOMAIN db \/ db[id] # InitialStore[id] })

(***************************************************************************)
(* A request in flight: call.pc is the position in the chain of its route  *)
(* (Len(chain) + 1 is the handler, 0 is finished), call.ran lists what ran,*)
(* call.written the responses written, call.identities the user in the     *)
(* context after each middleware that called next, and call.handlerUser    *)
(* what the handler read from the context.                                 *)
(***************************************************************************)
\* AuthMiddleware that also looks the user up in the users table and refuses
\* a token whose user is gone or has another role.
AuthenticatorWithStoreLookup(kind, r, t) ==
    LET mw == IF kind = "AuthMiddleware" THEN AuthMiddleware(tm, r, t)
              ELSE AuthMiddlewareHeaderOnly(tm, r, t)
        user == GetUserFromContext(mw.r.ctx)
    IN  IF /\ mw.next
           /\ \/ user[1].ID \notin DOMAIN db
              \/ db[user[1].ID].Role # user[1].Role
        THEN Answer(r, 401, "Unauthorized", mw.validated)
        ELSE mw

\* mw.AuthMiddleware(tokenManager), as the router mounts it, applied to r.
Authenticator(kind, r, t) ==
    IF kind = "AuthMiddleware" THEN AuthMiddleware(tm, r, t)
    ELSE AuthMiddlewareHeaderOnly(tm, r, t)

\* The request arrives: the router matches the route.
Receive ==
    /\ call.op = "none"
    /\ \E a \in Arrivals(now) :
        /\ a.route.handler = "DeleteUser" => StoreChanges < MaxStoreChanges
        /\ call' = [op |-> "Request", route |-> a.route, arg |-> a.arg,
                    at |-> now, r |-> a.r, pc |-> 1, ran |-> <<>>,
                    written |-> <<>>, identities |-> <<>>, validated |-> <<>>,
                    handlerUser |-> <<>>]
    /\ UNCHANGED <<now, tm, issued, db, permissionMap>>

\* The middleware at call.pc is the next thing to run.
AtMiddleware(kinds) ==
    /\ call.op = "Request"
    /\ call.pc >= 1
    /\ call.pc <= Len(call.route.chain)
    /\ call.route.chain[call.pc].kind \in kinds

\* The call after the middleware at call.pc did mw: a response is written
\* when it answered, the chain goes on when it called next.
Advance(mw) ==
    [call EXCEPT
        !.r = mw.r,
        !.pc = IF mw.next THEN @ + 1 ELSE 0,
        !.ran = Append(@, call.route.chain[call.pc].kind),
        !.written = IF mw.status # 0
                    THEN Append(@, [by |-> call.route.chain[call.pc].kind,
                                    status |-> mw.status, body |-> mw.body])
                    ELSE @,
        !.identities = IF mw.next THEN Append(@, GetUserFromContext(mw.r.ctx))
                       ELSE @,
        !.validated = @ \o mw.validated]

AuthMiddlewareStep ==
    /\ AtMiddleware({"AuthMiddleware", "AuthMiddlewareHeaderOnly"})
    /\ call' = Advance(Authenticator(call.route.chain[call.pc].kind, call.r, now))
    /\ UNCHANGED <<now, tm, issued, db, permissionMap>>

RequireRoleStep ==
    /\ AtMiddleware({"RequireRole"})
    /\ call' = Advance(RequireRole(call.route.chain[call.pc].role, call.r))
    /\ UNCHANGED <<now, tm, issued, db, permissionMap>>

RequirePermissionStep ==
    /\ AtMiddleware({"RequirePermission"})
    /\ call' = Advance(RequirePermission(call.route.chain[call.pc].perm, call.r))
    /\ UNCHANGED <<now, tm, issued, db, permissionMap>>

\* The handler of the route runs.
HandlerStep ==
    /\ call.op = "Request"
    /\ call.pc = Len(call.route.chain) + 1
    /\ LET h == Handle(call.route.handler, call.r, call.arg, now)
       IN  /\ call' = [call EXCEPT
                          !.pc = 0,
                          !.ran = Append(@, call.route.handler),
                          !.written = Append(@, [by |-> call.route.handler,
                                                 status |-> h.status,
                                                 body |-> h.body]),
                          !.handlerUser = <<GetUserFromContext(call.r.ctx)>>]
           /\ db' = h.db
           /\ issued' = h.issued
    /\ UNCHANGED <<now, tm, permissionMap>>

\* The response has gone out; the next request can arrive.
Respond ==
    /\ call.op = "Request"
    /\ call.pc = 0
    /\ call' = [op |-> "none"]
    /\ UNCHANGED <<now, tm, issued, db, permissionMap>>

\* UpdateUserRole that also gives the new role the role table entry of the
\* user's old role.
UpdateUserRoleCallWritingPermissionMap ==
    /\ call.op = "none"
    /\ issued # <<>>
    /\ StoreChanges < MaxStoreChanges
    /\ \E id \in { issued[1].user.ID }, role \in {RoleAdmin, RoleViewer} :
        /\ id \in DOMAIN db
        /\ db' = [db EXCEPT ![id].Role = role]
        /\ permissionMap' = [permissionMap EXCEPT
                                ![role] = PermissionMapIndex(db[id].Role)]
    /\ UNCHANGED <<now, tm, issued, call>>

\* Database.UpdateUserRole(id, role); no handler calls it.
UpdateUserRoleCall ==
    /\ call.op = "none"
    /\ issued # <<>>
    /\ StoreChanges < MaxStoreChanges
    /\ \E id \in { issued[1].user.ID }, role \in {RoleAdmin, RoleViewer} :
        /\ id \in DOMAIN db
        /\ db' = [db EXCEPT ![id].Role = role]
    /\ UNCHANGED <<now, tm, issued, call, permissionMap>>

ServerNext ==
    \/ Tick
    \/ Receive
    \/ AuthMiddlewareStep
    \/ RequireRoleStep
    \/ RequirePermissionStep
    \/ HandlerStep
    \/ Respond
    \/ UpdateUserRoleCall

ServerSpec == Init /\ [][ServerNext]_vars

\* A request is in flight through a chain of AuthMiddleware and at least one
\* guard.
InGuardedChain ==
    /\ call.op = "Request"
    /\ Len(call.route.chain) >= 2
    /\ call.route.chain[1].kind \in {"AuthMiddleware", "AuthMiddlewareHeaderOnly"}
    /\ \A i \in 2..Len(call.route.chain) :
          call.route.chain[i].kind \in {"RequireRole", "RequirePermission"}

\* The steps of the route of the request, in order: its middlewares, then
\* its handler.
StepsOfRoute ==
    [i \in 1..Len(call.route.chain) |-> call.route.chain[i].kind]
    \o <<call.route.handler>>

\* The responses written by the middlewares of the chain.
WrittenByMiddleware(w) == w.by # call.route.handler
Refusals == SelectSeq(call.written, WrittenByMiddleware)

\* The handler of the route has run.
HandlerRan == call.op = "Request" /\ call.handlerUser # <<>>

\* The guard's condition on a user, as the guards are specified: the role is
\* admin or the required one; every requested capability is the role's.
GuardAllows(guard, user) ==
    IF guard.kind = "RequireRole"
    THEN user.Role = RoleAdmin \/ user.Role = guard.role
    ELSE \A c \in Capabilities :
            guard.perm[c] => PermissionMapIndex(user.Role)[c]

(***************************************************************************)
(* C17.  Protected-request state machine: through a chain AuthMiddleware,  *)
(* guard, handler the steps run in that order, none twice; the handler     *)
(* runs only after AuthMiddleware has accepted the token (Authenticated)   *)
(* and every guard has allowed its user (Authorized); a step that fails    *)
(* writes the one response of the request, 401 or 403, and nothing runs    *)
(* after it; a guard that passes leaves the identity unchanged.            *)
(***************************************************************************)
C17_ProtectedRequest ==
    InGuardedChain =>
        LET n == Len(call.ran)
            chain == call.route.chain
        IN  /\ n <= Len(StepsOfRoute)
            /\ call.ran = SubSeq(StepsOfRoute, 1, n)
            /\ call.pc # 0 => (call.pc = n + 1 /\ call.written = <<>>)
            /\ Len(Refusals) <= 1
            /\ Refusals # <<>> =>
                  /\ call.pc = 0
                  /\ call.written = Refusals
                  /\ Refusals[1].by = call.ran[n]
                  /\ Refusals[1].status =
                        (IF n = 1 \/ call.identities = <<>> THEN 401 ELSE 403)
                  /\ ~HandlerRan
                  /\ Len(call.identities) = n - 1
            /\ \A i \in 1..Len(call.identities) :
                  /\ call.identities[i] # <<>>
                  /\ call.identities[i] = call.identities[1]
            /\ \A i \in 2..Len(call.identities) :
                  GuardAllows(chain[i], call.identities[1][1])
            /\ HandlerRan =>
                  LET res == ValidateToken(tm, call.validated[1], call.at)
                  IN  /\ Refusals = <<>>
                      /\ n = Len(StepsOfRoute)
                      /\ Len(call.identities) = Len(chain)
                      /\ res.err = ""
                      /\ call.identities[1] = <<ToUser(res.claims[1])>>
                      /\ call.handlerUser = <<call.identities[1]>>
                      /\ Len(call.written) = 1

\* An uploader's request for GET /api/admin/users ends at RequireRole with
\* 403; the handler has not run.
C17_Witness ==
    /\ InGuardedChain
    /\ call.route.handler = "GetUsers"
    /\ call.ran = <<"AuthMiddleware", "RequireRole">>
    /\ call.identities # <<>>
    /\ call.identities[1][1].Role = RoleUploader
    /\ call.pc = 0
    /\ call.written = <<[by |-> "RequireRole", status |-> 403, body |-> "Forbidden"]>>

(***************************************************************************)
(* C18.  In the route table every protected request passes a role or       *)
(* permission guard after AuthMiddleware and before its handler; POST      *)
(* /api/upload is reached only by identities whose role has can_upload and *)
(* DELETE /api/files only by those whose role has can_delete, so a viewer  *)
(* never reaches UploadFile or DeleteFile.                                 *)
(***************************************************************************)
C18_ProtectedRoutesAreGuarded ==
    (HandlerRan /\ call.route \in ProtectedRoutes) =>
        /\ \E i \in 1..Len(call.ran) :
              call.ran[i] \in {"RequireRole", "RequirePermission"}
        /\ call.handlerUser[1] # <<>>
        /\ call.route.handler = "UploadFile" =>
              PermissionMapIndex(call.handlerUser[1][1].Role).CanUpload
        /\ call.route.handler = "DeleteFile" =>
              PermissionMapIndex(call.handlerUser[1][1].Role).CanDelete

\* The request of a logged-in viewer for POST /api/upload has reached
\* UploadFile, no guard having run.
C18_Witness ==
    /\ HandlerRan
    /\ call.route = Route("POST", "/api/upload", <<UseAuthMiddleware>>, "UploadFile")
    /\ call.ran = <<"AuthMiddleware", "UploadFile">>
    /\ call.handlerUser[1] # <<>>
    /\ call.handlerUser[1][1].Role = RoleViewer

\* AuthMiddleware (of the version at the head of the route's chain) has run
\* on the request and ValidateToken has refused the token it was given.
TokenRefused ==
    /\ call.op = "Request"
    /\ call.ran # <<>>
    /\ call.ran[1] \in {"AuthMiddleware", "AuthMiddlewareHeaderOnly"}
    /\ call.validated # <<>>
    /\ ValidateToken(tm, call.validated[1], call.at).err # ""

\* What the caller sees of the same middleware when it presents token in the
\* Authorization header: the status and the body.
ResponseTo(token) ==
    LET mw == Authenticator(call.ran[1],
                            Request(<<>>, Bearer \o <<32>> \o token), call.at)
    IN  [status |-> mw.status, body |-> mw.body]

(***************************************************************************)
(* C19.  No oracle: whatever the reason ValidateToken refuses a token for  *)
(* (format, signature, malformed claims, expiry), the status and body of   *)
(* AuthMiddleware's response are those it gives for a token refused for    *)
(* any other reason.                                                       *)
(***************************************************************************)
C19_NoOracle ==
    TokenRefused =>
        LET err == ValidateToken(tm, call.validated[1], call.at).err
            seen == [status |-> call.written[1].status,
                     body |-> call.written[1].body]
            errOf == [other \in RejectedTokens(call.at) |->
                         ValidateToken(tm, other, call.at).err]
        IN  /\ Len(call.written) = 1
            /\ seen.status = 401
            /\ \A other \in DOMAIN errOf :
                  (errOf[other] # "" /\ errOf[other] # err)
                      => ResponseTo(other) = seen
            /\ { errOf[other] : other \in DOMAIN errOf }
               = { "invalid token format", "failed to decode claims",
                   "invalid token signature", "failed to parse claims",
                   "token expired" }

\* A token whose signed payload is no claims object is answered like the
\* others.
C19_Witness ==
    /\ TokenRefused
    /\ ValidateToken(tm, call.validated[1], call.at).err = "failed to parse claims"
    /\ call.written = <<[by |-> "AuthMiddleware", status |-> 401,
                         body |-> "Unauthorized"]>>

\* AuthMiddleware has run on a request that carried the issued token, before
\* the token's expiry.
IssuedTokenPresented ==
    /\ call.op = "Request"
    /\ call.ran # <<>>
    /\ call.ran[1] \in {"AuthMiddleware", "AuthMiddlewareHeaderOnly"}
    /\ issued # <<>>
    /\ call.validated = <<issued[1].token>>
    /\ call.at < issued[1].claims.ExpiresAt

\* The row of the issued token's user is gone from the users table, or has
\* another role than the token.
RowChangedSinceIssue ==
    /\ issued # <<>>
    /\ \/ issued[1].user.ID \notin DOMAIN db
       \/ db[issued[1].user.ID].Role # issued[1].user.Role

(***************************************************************************)
(* C20.  Stateless tokens, no revocation: until its expires_at an issued   *)
(* token authenticates every request whatever has happened to the users    *)
(* table since; after DeleteUser or UpdateUserRole for its user,           *)
(* AuthMiddleware still accepts it and attaches the identity and role      *)
(* recorded at issuance.                                                   *)
(***************************************************************************)
C20_NoRevocation ==
    IssuedTokenPresented =>
        /\ call.identities # <<>>
        /\ call.identities[1] = <<issued[1].user>>
        /\ \A i \in 1..Len(call.written) :
              call.written[i].by \notin {"AuthMiddleware", "AuthMiddlewareHeaderOnly"}

\* The token of a user whose row has been deleted is accepted, with the
\* user and role it was issued for.
C20_Witness ==
    /\ IssuedTokenPresented
    /\ RowChangedSinceIssue
    /\ issued[1].user.ID \notin DOMAIN db
    /\ call.identities = <<<<issued[1].user>>>>
    /\ call.written = <<>>

(***************************************************************************)
(* Claims timing at issuance.                                              *)
(***************************************************************************)
\* A token has been generated and its Claims record is at hand.
ClaimsBuilt == issued # <<>>

(***************************************************************************)
(* C21.  Claims timing at issuance: every Claims record built by           *)
(* GenerateToken(identity, ttl) has expires_at > issued_at and             *)
(* expires_at = issued_at + ttl, for every ttl the function accepts.       *)
(***************************************************************************)
C21_ClaimsTiming ==
    ClaimsBuilt =>
        /\ issued[1].claims.ExpiresAt > issued[1].claims.IssuedAt
        /\ issued[1].claims.ExpiresAt
              = issued[1].claims.IssuedAt + issued[1].ttl

\* GenerateToken was called with a positive ttl, the clock moved between its
\* two readings, and the record it built does not expire after it was issued.
C21_Witness ==
    /\ ClaimsBuilt
    /\ issued[1].ttl > 0
    /\ issued[1].claims.ExpiresAt <= issued[1].claims.IssuedAt
    /\ issued[1].claims.ExpiresAt # issued[1].claims.IssuedAt + issued[1].ttl
    /\ issued[1].token
          = SignedToken(NewTokenManager(issued[1].key), Marshal(issued[1].claims))

(***************************************************************************)
(* Two calls of GenerateToken: the token held in issued, and a later call  *)
(* whose result is compared with it.                                       *)
(***************************************************************************)
\* GenerateToken is called again, by a TokenManager with any of the secrets;
\* the first token stays in issued.
GenerateTokenAgainCall ==
    /\ call.op = "none"
    /\ issued # <<>>
    /\ \E s \in Secrets, user \in Users, ttl \in TTLs, skew \in 0..MaxSkew :
        /\ now + skew <= MaxTime
        /\ now' = now + skew
        /\ call' = [op |-> "GenerateToken", at |-> now,
                    token |-> GenerateToken(NewTokenManager(s), user, ttl,
                                            now, now + skew),
                    user |-> user, ttl |-> ttl, key |-> s,
                    claims |-> NewClaims(user, ttl, now, now + skew)]
    /\ UNCHANGED <<tm, issued, db, permissionMap>>

CodecNext ==
    \/ Tick
    \/ GenerateTokenCall
    \/ GenerateTokenAgainCall
    \/ Return

CodecSpec == Init /\ [][CodecNext]_vars

\* The second call built a Claims record with the content of the first one's.
SameClaimsContent ==
    /\ call.op = "GenerateToken"
    /\ issued # <<>>
    /\ call.claims = issued[1].claims

ViewerSession ==
    GenerateToken(tm, UserOfRow(InitialStore[<<118, 105, 101, 119, 101, 114>>]),
                  SessionTTL, 8, 8)

\* The requests that arrive together: with the admin's session or the
\* viewer's in either carrier, without a token, and with a foreign token.
ParallelRequests ==
    Carriers(AdminSession(9)) \cup Carriers(ViewerSession)
    \cup { Request(<<>>, <<>>),
           Request(<<GenerateToken(NewTokenManager(<<107, 50>>),
                                   UserOfRow(InitialStore[<<97, 100, 109, 105, 110>>]),
                                   SessionTTL, 9, 9)>>, <<>>) }

\* A request in its goroutine: arrived is the request as it came, r the
\* *http.Request the goroutine holds, at the clock reading of ValidateToken
\* (<<>> before), seen what the handler read from the context.
InFlight(r) ==
    [arrived |-> r, r |-> r, pc |-> "AuthMiddleware", at |-> <<>>,
     status |-> 0, body |-> "", seen |-> <<>>]

\* AuthMiddleware with the context kept in a variable all goroutines share.
ServeHTTPSharedContext(reqs, i, mw, t) ==
    [j \in DOMAIN reqs |->
        IF j = i
        THEN [reqs[j] EXCEPT !.r = mw.r, !.at = <<t>>, !.status = mw.status,
                             !.body = mw.body,
                             !.pc = IF mw.next THEN "next" ELSE "answered"]
        ELSE IF mw.next THEN [reqs[j] EXCEPT !.r.ctx = mw.r.ctx] ELSE reqs[j]]

\* What AuthMiddleware's closure does to the requests in flight when it runs
\* for request i with outcome mw: *r = *r.WithContext(...) writes the
\* goroutine's own request, http.Error its own ResponseWriter.
ServeHTTP(reqs, i, mw, t) ==
    [reqs EXCEPT ![i] = [@ EXCEPT !.r = mw.r, !.at = <<t>>,
                                  !.status = mw.status, !.body = mw.body,
                                  !.pc = IF mw.next THEN "next" ELSE "answered"]]

\* Two requests arrive.
ParallelReceive ==
    /\ call.op = "none"
    /\ \E r1 \in ParallelRequests, r2 \in ParallelRequests :
        call' = [op |-> "Parallel", reqs |-> <<InFlight(r1), InFlight(r2)>>]
    /\ UNCHANGED <<now, tm, issued, db, permissionMap>>

\* The clock advances while requests are in flight.
ParallelTick ==
    /\ call.op = "Parallel"
    /\ now < MaxTime
    /\ now' = now + 1
    /\ UNCHANGED <<tm, issued, call, db, permissionMap>>

\* AuthMiddleware runs for one of the requests.
ParallelAuthMiddleware ==
    /\ call.op = "Parallel"
    /\ \E i \in DOMAIN call.reqs :
        /\ call.reqs[i].pc = "AuthMiddleware"
        /\ call' = [call EXCEPT !.reqs =
                       ServeHTTP(call.reqs, i,
                                 AuthMiddleware(tm, call.reqs[i].r, now), now)]
    /\ UNCHANGED <<now, tm, issued, db, permissionMap>>

\* The handler behind the middleware runs for one of the requests and reads
\* the user from the request's context.
ParallelHandler ==
    /\ call.op = "Parallel"
    /\ \E i \in DOMAIN call.reqs :
        /\ call.reqs[i].pc = "next"
        /\ call' = [call EXCEPT !.reqs[i] =
                       [@ EXCEPT !.seen = GetUserFromContext(call.reqs[i].r.ctx),
                                 !.status = 200, !.body = "OK",
                                 !.pc = "served"]]
    /\ UNCHANGED <<now, tm, issued, db, permissionMap>>

\* Both requests are answered.
ParallelRespond ==
    /\ call.op = "Parallel"
    /\ \A i \in DOMAIN call.reqs : call.reqs[i].pc \in {"answered", "served"}
    /\ call' = [op |-> "none"]
    /\ UNCHANGED <<now, tm, issued, db, permissionMap>>

ParallelNext ==
    \/ ParallelReceive
    \/ ParallelTick
    \/ ParallelAuthMiddleware
    \/ ParallelHandler
    \/ ParallelRespond

ParallelSpec == Init /\ [][ParallelNext]_vars

\* What request q gets when it is the only request, validated at q.at.
Alone(q) == Serve(AuthMiddleware(tm, q.arrived, q.at[1]))

\* Request q as far as it has come agrees with the same request handled
\* alone.
Isolated(q) ==
    CASE q.pc = "AuthMiddleware" ->
            /\ q.r = q.arrived
            /\ GetUserFromContext(q.r.ctx) = <<>>
      [] q.pc = "answered" ->
            LET alone == Alone(q)
            IN  /\ alone.calls = 0
                /\ q.status = alone.status /\ q.body = alone.body
                /\ GetUserFromContext(q.r.ctx) = <<>>
      [] q.pc = "next" ->
            LET alone == Alone(q)
            IN  /\ alone.calls = 1
                /\ GetUserFromContext(q.r.ctx) = alone.user
                /\ q.r.ctx = alone.ctx
      [] q.pc = "served" ->
            LET alone == Alone(q)
            IN  /\ alone.calls = 1
                /\ q.seen = alone.user
                /\ q.r.ctx = alone.ctx
                /\ q.status = alone.status /\ q.body = alone.body

(***************************************************************************)
(* C23.  Request isolation under concurrency: for any interleaving of      *)
(* requests handled in parallel, each request's validation result depends  *)
(* only on its own token, the secret and the current time, and the         *)
(* identity attached to one request's context is never observed by, or     *)
(* merged into, another request.                                           *)
(***************************************************************************)
C23_RequestIsolation ==
    call.op = "Parallel" =>
        \A i \in DOMAIN call.reqs : Isolated(call.reqs[i])

\* Two requests in flight together, one with the admin's session and one
\* with the viewer's: AuthMiddleware validated the viewer's after the
\* admin's, and each handler read the identity of its own request.
C23_Witness ==
    /\ call.op = "Parallel"
    /\ call.reqs[1].pc = "served"
    /\ call.reqs[2].pc = "served"
    /\ call.reqs[1].arrived = Request(<<AdminSession(9)>>, <<>>)
    /\ call.reqs[2].arrived = Request(<<ViewerSession>>, <<>>)
    /\ call.reqs[1].seen = <<UserOfRow(InitialStore[<<97, 100, 109, 105, 110>>])>>
    /\ call.reqs[2].seen = <<UserOfRow(InitialStore[<<118, 105, 101, 119, 101, 114>>])>>

IndexAnswered ==
    /\ call.op = "Request"
    /\ call.route = Route("GET", "/", <<>>, "GetIndex")
    /\ call.pc = 0

\* Request r carries a token that is valid at time t: AuthMiddleware would
\* attach an identity to it.
CarriesValidToken(r, t) == AuthMiddleware(tm, r, t).next

(***************************************************************************)
(* C25.  GET / redirects to /dashboard when the request carries a valid    *)
(* token (an identity is present) and to /login otherwise, under the       *)
(* server's actual route wiring.                                           *)
(***************************************************************************)
C25_IndexRedirect ==
    IndexAnswered =>
        /\ Len(call.written) = 1
        /\ call.written[1].status = 303
        /\ call.written[1].body
              = IF CarriesValidToken(call.r, call.at) THEN "/dashboard"
                ELSE "/login"

\* GET / with the admin's valid session in the cookie: no middleware ran,
\* GetIndex found no user in the context and redirected to /login.
C25_Witness ==
    /\ IndexAnswered
    /\ call.r.cookie = <<AdminSession(call.at)>>
    /\ CarriesValidToken(call.r, call.at)
    /\ call.ran = <<"GetIndex">>
    /\ call.handlerUser = << <<>> >>
    /\ call.written = <<[by |-> "GetIndex", status |-> 303, body |-> "/login"]>>

(***************************************************************************)
(* C26.  No fallback after a bad cookie: whenever an auth_token cookie is  *)
(* present AuthMiddleware never consults the Authorization header, so a    *)
(* request with an invalid or expired cookie is rejected with 401 even if  *)
(* it also carries a valid Bearer token; and, the cookie being absent, a   *)
(* header that is not exactly "Bearer", one space and a token is rejected  *)
(* with 401 without ValidateToken being called.                            *)
(***************************************************************************)
C26_NoFallback ==
    call.op = "AuthMiddleware" =>
        LET r == call.r
            res == call.res
        IN  /\ r.cookie # <<>> => res.validated = r.cookie
            /\ (r.cookie # <<>> /\ ValidateToken(tm, r.cookie[1], call.at).err # "")
                  => /\ res.status = 401
                     /\ res.calls = 0
                     /\ res.user = <<>>
            /\ (r.cookie = <<>> /\ BearerToken(r.authorization) = <<>>)
                  => /\ res.status = 401
                     /\ res.calls = 0
                     /\ res.user = <<>>
                     /\ res.validated = <<>>

\* An expired token of the server's in the cookie and another client's valid
\* token in the Authorization header: only the cookie was validated, and the
\* request was answered 401.
C26_Witness ==
    /\ call.op = "AuthMiddleware"
    /\ issued # <<>>
    /\ call.r.cookie = <<issued[1].token>>
    /\ Expired(ValidateToken(tm, issued[1].token, call.at))
    /\ call.r.authorization = Bearer \o <<32>> \o OtherToken(call.at)
    /\ ValidateToken(tm, OtherToken(call.at), call.at).err = ""
    /\ call.res.validated = <<issued[1].token>>
    /\ call.res.status = 401
    /\ call.res.calls = 0

(***************************************************************************)
(* Login.                                                                  *)
(***************************************************************************)
\* LoginHandler has answered the request in flight.
LoginAnswered ==
    /\ call.op = "Request"
    /\ call.route.handler = "LoginHandler"
    /\ call.pc = 0

\* The rows of the users table with the username of the login body whose
\* password hash is that of the body's password.
VerifiedRows(body) ==
    { id \in DOMAIN db :
        /\ body # <<>>
        /\ db[id].Username = body[1].Username
        /\ VerifyPassword(db[id].Password, body[1].Password) }

(***************************************************************************)
(* C27.  Login issues a token only when the username exists in the store   *)
(* and the supplied password verifies against that record; the token's     *)
(* identity fields are those of the stored record; and the responses for   *)
(* "user not found" and "wrong password" are identical (401, same error    *)
(* text), with no token in either.                                         *)
(***************************************************************************)
C27_Login ==
    LoginAnswered =>
        LET response == call.written[1]
            rows == VerifiedRows(call.arg)
        IN  /\ Len(call.written) = 1
            /\ response.status = 200 =>
                  /\ rows # {}
                  /\ issued # <<>>
                  /\ \E id \in rows :
                        LET res == ValidateToken(tm, issued[1].token, call.at)
                        IN  /\ res.err = ""
                            /\ ToUser(res.claims[1]) = UserOfRow(db[id])
            /\ (call.arg # <<>> /\ rows = {}) =>
                  response = [by |-> "LoginHandler", status |-> 401,
                              body |-> "invalid username or password"]
            /\ response.body = "token" <=> response.status = 200

\* A user whose role was changed in the users table logs in again: the new
\* token carries the role of the stored record.
C27_Witness ==
    /\ LoginAnswered
    /\ call.written[1].status = 200
    /\ issued[1].user.ID \in DOMAIN db
    /\ issued[1].user = UserOfRow(db[issued[1].user.ID])
    /\ issued[1].user.Role # InitialStore[issued[1].user.ID].Role
    /\ issued[1].claims.IssuedAt = call.at

(***************************************************************************)
(* Signup (AuthHandler.SignupHandler, internal/handler/auth.go) and the    *)
(* users table's constraints (internal/db/db.go).                          *)
(***************************************************************************)
\* cfg.Auth.SignupKey: "sk".
SignupKey == <<115, 107>>

\* The bytes strings.TrimSpace removes: tab, newline, vertical tab, form
\* feed, carriage return and space.
Space == {9, 10, 11, 12, 13, 32}

\* strings.TrimSpace
TrimSpace(s) ==
    LET kept == { i \in 1..Len(s) : s[i] \notin Space }
    IN  IF kept = {} THEN <<>>
        ELSE SubSeq(s, CHOOSE i \in kept : \A j \in kept : i <= j,
                       CHOOSE i \in kept : \A j \in kept : j <= i)

\* A signup body json can decode: the members username, email, password and
\* signup_key, and a member "role" that SignupRequest has no field for.
SignupBody(username, email, password, signupKey, role) ==
    [username |-> username, email |-> email, password |-> password,
     signup_key |-> signupKey, role |-> role]

\* json.NewDecoder(r.Body).Decode(&req): the members SignupRequest has a
\* field for; a member without one is dropped.
DecodeSignupRequest(body) ==
    [Username |-> body.username, Email |-> body.email,
     Password |-> body.password, SignupKey |-> body.signup_key]

\* time.Now().Format("20060102150405"): the instant to the second.
Format(t) == Itoa(t)

\* Database.GetUserByUsername and Database.GetUserByEmail on a users table:
\* TRUE when a row is found (err == nil).
GetUserByUsername(store, username) ==
    \E id \in DOMAIN store : store[id].Username = username
GetUserByEmail(store, email) ==
    \E id \in DOMAIN store : store[id].Email = email

\* CreateUser without the primary key of the users table.
CreateUserWithoutPrimaryKey(store, id, username, email, password, role) ==
    IF \/ GetUserByUsername(store, username)
       \/ GetUserByEmail(store, email)
    THEN [err |-> "failed to create user", db |-> store]
    ELSE [err |-> "",
          db |-> [i \in DOMAIN store \cup {id} |->
                     IF i = id THEN Row(id, username, email, password, role)
                     ELSE store[i]]]

\* Database.CreateUser: the INSERT fails when id (PRIMARY KEY), username or
\* email (UNIQUE) is in the table already.
CreateUser(store, id, username, email, password, role) ==
    IF \/ id \in DOMAIN store
       \/ GetUserByUsername(store, username)
       \/ GetUserByEmail(store, email)
    THEN [err |-> "failed to create user", db |-> store]
    ELSE [err |-> "",
          db |-> [i \in DOMAIN store \cup {id} |->
                     IF i = id THEN Row(id, username, email, password, role)
                     ELSE store[i]]]

\* A signup in its goroutine: body is <<>> for a body json cannot decode,
\* req the decoded and trimmed request, userID the id made from the clock,
\* token the token of the response.
Signup(body) ==
    [body |-> body, pc |-> "Decode", req |-> <<>>, userID |-> <<>>,
     status |-> 0, error |-> "", token |-> <<>>]

\* The handler writes a SignupResponse with an error and returns.
SignupFails(q, status, error) ==
    [q EXCEPT !.pc = "done", !.status = status, !.error = error]

\* SignupHandler up to the first use of the users table: the body, the
\* signup key, the trimmed fields.
SignupValidate(q) ==
    IF q.body = <<>> THEN SignupFails(q, 400, "invalid request")
    ELSE LET req == DecodeSignupRequest(q.body[1])
             trimmed == [req EXCEPT !.Username = TrimSpace(@),
                                    !.Email = TrimSpace(@),
                                    !.Password = TrimSpace(@)]
         IN  IF req.SignupKey # SignupKey
             THEN SignupFails(q, 401, "invalid signup key")
             ELSE IF \/ trimmed.Username = <<>>
                     \/ trimmed.Email = <<>>
                     \/ trimmed.Password = <<>>
             THEN SignupFails([q EXCEPT !.req = <<trimmed>>], 400,
                              "username, email and password are required")
             ELSE IF Len(trimmed.Password) < 6
             THEN SignupFails([q EXCEPT !.req = <<trimmed>>], 400,
                              "password must be at least 6 characters")
             ELSE [q EXCEPT !.req = <<trimmed>>, !.pc = "GetUserByUsername"]

\* "Check if user already exists" and "Check if email already exists".
SignupCheckUsername(q, store) ==
    IF GetUserByUsername(store, q.req[1].Username)
    THEN SignupFails(q, 409, "username already exists")
    ELSE [q EXCEPT !.pc = "GetUserByEmail"]
SignupCheckEmail(q, store) ==
    IF GetUserByEmail(store, q.req[1].Email)
    THEN SignupFails(q, 409, "email already exists")
    ELSE [q EXCEPT !.pc = "Now"]

\* userID := "user_" + time.Now().Format("20060102150405")
SignupUserID(q, t) ==
    [q EXCEPT !.userID = <<(<<117, 115, 101, 114, 95>> \o Format(t))>>,
              !.pc = "CreateUser"]

\* The end of SignupHandler with the role taken from the request body.
SignupCreateUserWithRequestedRole(q, store, t) ==
    LET req == q.req[1]
        created == CreateUser(store, q.userID[1], req.Username, req.Email,
                              req.Password, q.body[1].role)
        user == [ID |-> q.userID[1], Name |-> req.Username,
                 Email |-> req.Email, Role |-> q.body[1].role]
    IN  IF created.err # ""
        THEN [q |-> SignupFails(q, 500, "failed to create user"), db |-> store]
        ELSE [q |-> [q EXCEPT !.pc = "done", !.status = 200,
                              !.token = <<GenerateToken(tm, user, SessionTTL, t, t)>>],
              db |-> created.db]

\* The end of SignupHandler: CreateUser with RoleUploader, then the token;
\* the signup after it and the users table after it.
SignupCreateUser(q, store, t) ==
    LET req == q.req[1]
        created == CreateUser(store, q.userID[1], req.Username, req.Email,
                              req.Password, RoleUploader)
        user == [ID |-> q.userID[1], Name |-> req.Username,
                 Email |-> req.Email, Role |-> RoleUploader]
    IN  IF created.err # ""
        THEN [q |-> SignupFails(q, 500, "failed to create user"), db |-> store]
        ELSE [q |-> [q EXCEPT !.pc = "done", !.status = 200,
                              !.token = <<GenerateToken(tm, user, SessionTTL, t, t)>>],
              db |-> created.db]

\* The signup bodies: one json cannot decode; a wrong key with empty fields;
\* a username of spaces; a password of five bytes between spaces; "amy" who
\* asks for the role admin; " amy" with another email; "bob" with that
\* email; the username and the email of the demo viewer.
SignupBodies ==
    { <<>>,
      <<SignupBody(<<>>, <<>>, <<>>, <<110, 111>>, RoleAdmin)>>,
      <<SignupBody(<<32, 32>>, <<97, 64, 120>>,
                   <<115, 101, 99, 114, 101, 116, 49>>, SignupKey, RoleUploader)>>,
      <<SignupBody(<<97, 109, 121>>, <<97, 64, 120>>,
                   <<32, 97, 98, 99, 49, 50, 32>>, SignupKey, RoleUploader)>>,
      <<SignupBody(<<97, 109, 121>>, <<97, 64, 120>>,
                   <<115, 101, 99, 114, 101, 116, 49>>, SignupKey, RoleAdmin)>>,
      <<SignupBody(<<32, 97, 109, 121>>, <<98, 64, 120>>,
                   <<115, 101, 99, 114, 101, 116, 50>>, SignupKey, RoleUploader)>>,
      <<SignupBody(<<98, 111, 98>>, <<98, 64, 120, 32>>,
                   <<115, 101, 99, 114, 101, 116, 50>>, SignupKey, RoleViewer)>>,
      <<SignupBody(<<118, 105, 101, 119, 101, 114>>, <<118, 64, 120>>,
                   <<115, 101, 99, 114, 101, 116, 51>>, SignupKey, RoleUploader)>>,
      <<SignupBody(<<99, 97, 116>>,
                   <<118, 105, 101, 119, 101, 114, 64, 101, 120, 97, 109, 112, 108, 101, 46, 99, 111, 109>>,
                   <<115, 101, 99, 114, 101, 116, 51>>, SignupKey, RoleUploader)>> }

\* Two signup requests arrive; store is the users table as they arrive.
SignupReceive ==
    /\ call.op = "none"
    /\ \E b1 \in SignupBodies, b2 \in SignupBodies :
        call' = [op |-> "Signup", reqs |-> <<Signup(b1), Signup(b2)>>,
                 store |-> db]
    /\ UNCHANGED <<now, tm, issued, db, permissionMap>>

\* The clock advances while signups are in flight.
SignupTick ==
    /\ call.op = "Signup"
    /\ now < MaxTime
    /\ now' = now + 1
    /\ UNCHANGED <<tm, issued, call, db, permissionMap>>

\* Signup i is at the step named pc.
SignupAt(i, pc) ==
    /\ call.op = "Signup"
    /\ i \in DOMAIN call.reqs
    /\ call.reqs[i].pc = pc

SignupValidateStep ==
    /\ \E i \in 1..2 :
        /\ SignupAt(i, "Decode")
        /\ call' = [call EXCEPT !.reqs[i] = SignupValidate(call.reqs[i])]
    /\ UNCHANGED <<now, tm, issued, db, permissionMap>>

GetUserByUsernameStep ==
    /\ \E i \in 1..2 :
        /\ SignupAt(i, "GetUserByUsername")
        /\ call' = [call EXCEPT !.reqs[i] = SignupCheckUsername(call.reqs[i], db)]
    /\ UNCHANGED <<now, tm, issued, db, permissionMap>>

GetUserByEmailStep ==
    /\ \E i \in 1..2 :
        /\ SignupAt(i, "GetUserByEmail")
        /\ call' = [call EXCEPT !.reqs[i] = SignupCheckEmail(call.reqs[i], db)]
    /\ UNCHANGED <<now, tm, issued, db, permissionMap>>

SignupUserIDStep ==
    /\ \E i \in 1..2 :
        /\ SignupAt(i, "Now")
        /\ call' = [call EXCEPT !.reqs[i] = SignupUserID(call.reqs[i], now)]
    /\ UNCHANGED <<now, tm, issued, db, permissionMap>>

CreateUserStep ==
    /\ \E i \in 1..2 :
        /\ SignupAt(i, "CreateUser")
        /\ LET end == SignupCreateUser(call.reqs[i], db, now)
           IN  /\ call' = [call EXCEPT !.reqs[i] = end.q]
               /\ db' = end.db
    /\ UNCHANGED <<now, tm, issued, permissionMap>>

\* Both responses have gone out.
SignupRespond ==
    /\ call.op = "Signup"
    /\ \A i \in DOMAIN call.reqs : call.reqs[i].pc = "done"
    /\ call' = [op |-> "none"]
    /\ UNCHANGED <<now, tm, issued, db, permissionMap>>

SignupNext ==
    \/ SignupReceive
    \/ SignupTick
    \/ SignupValidateStep
    \/ GetUserByUsernameStep
    \/ GetUserByEmailStep
    \/ SignupUserIDStep
    \/ CreateUserStep
    \/ SignupRespond

SignupSpec == Init /\ [][SignupNext]_vars

\* The signups in flight that were answered with a token.
Registered ==
    { i \in DOMAIN call.reqs :
        call.reqs[i].pc = "done" /\ call.reqs[i].status = 200 }

\* The row SignupHandler creates for signup q.
SignupRow(q) ==
    Row(q.userID[1], q.req[1].Username, q.req[1].Email, q.req[1].Password,
        RoleUploader)

(***************************************************************************)
(* C28.  Signup never escalates and has no partial effect: the signup key  *)
(* is checked before any other input; every user created by SignupHandler  *)
(* has role uploader, whatever the request contains; and on every failure  *)
(* path (bad key, empty field, password shorter than 6, existing username  *)
(* or email, store error) no user is created and no token is returned.     *)
(***************************************************************************)
C28_Signup ==
    /\ \A id \in DOMAIN db \ DOMAIN InitialStore : db[id].Role = RoleUploader
    /\ call.op = "Signup" =>
        /\ \A i \in DOMAIN call.reqs :
              LET q == call.reqs[i]
              IN  /\ ( /\ q.pc # "Decode"
                       /\ q.body # <<>>
                       /\ q.body[1].signup_key # SignupKey )
                        => /\ q.pc = "done"
                           /\ q.status = 401
                           /\ q.error = "invalid signup key"
                  /\ (q.pc = "done" /\ q.status # 200)
                        => /\ q.token = <<>>
                           /\ q.status \in {400, 401, 409, 500}
                           /\ q.error # ""
                  /\ (q.pc = "done" /\ q.status = 200)
                        => /\ q.token # <<>>
                           /\ LET res == ValidateToken(tm, q.token[1], 0)
                              IN  /\ res.err = ""
                                  /\ ToUser(res.claims[1]) = UserOfRow(SignupRow(q))
                           /\ q.userID[1] \in DOMAIN db
                           /\ db[q.userID[1]] = SignupRow(q)
                  /\ q.pc # "done" => q.token = <<>> /\ q.status = 0
        /\ DOMAIN db = DOMAIN call.store
                          \cup { call.reqs[i].userID[1] : i \in Registered }
        /\ \A id \in DOMAIN call.store : db[id] = call.store[id]

\* "amy" signed up asking for the role admin and was registered as an
\* uploader, while a signup with a wrong key and empty fields was answered
\* 401: the users table has one row more.
C28_Witness ==
    /\ call.op = "Signup"
    /\ Registered = {1}
    /\ call.reqs[1].body[1].role = RoleAdmin
    /\ db[call.reqs[1].userID[1]].Role = RoleUploader
    /\ call.reqs[2].pc = "done"
    /\ call.reqs[2].body # <<>>
    /\ call.reqs[2].body[1].username = <<>>
    /\ call.reqs[2].status = 401
    /\ Cardinality(DOMAIN db) = Cardinality(DOMAIN call.store) + 1

(***************************************************************************)
(* Concurrent signups.                                                     *)
(***************************************************************************)
\* Both signups found neither their username nor their email in the users
\* table, made their ids, and have been answered.
BothPassedTheChecks ==
    /\ call.op = "Signup"
    /\ \A i \in DOMAIN call.reqs :
          call.reqs[i].pc = "done" /\ call.reqs[i].userID # <<>>

\* The two signups ask for the same username, or made the same id: their
\* clock readings fell in the same second.
SameUsername == call.reqs[1].req[1].Username = call.reqs[2].req[1].Username
SameSecond == call.reqs[1].userID = call.reqs[2].userID

\* No row of the users table has the id, the username or the email of
\* another one.
UniqueUsers ==
    \A a \in DOMAIN db :
        /\ db[a].ID = a
        /\ \A b \in DOMAIN db \ {a} :
              /\ db[a].Username # db[b].Username
              /\ db[a].Email # db[b].Email

MaxSessions == 2

\* The contexts a handler can be called with: none of a user, and the user
\* of each row of the table, of "admin" as a viewer and of a role "guest".
AdminContexts ==
    { Request(<<>>, <<>>) }
    \cup { [Request(<<>>, <<>>) EXCEPT !.ctx = SetUserInContext(Background, user)] :
             user \in { UserOfRow(InitialStore[id]) : id \in DOMAIN InitialStore }
                      \cup { [UserOfRow(InitialStore[<<117, 112, 108, 111, 97, 100, 101, 114>>])
                                 EXCEPT !.Role = RoleAdmin],
                             [UserOfRow(InitialStore[<<97, 100, 109, 105, 110>>])
                                 EXCEPT !.Role = <<103, 117, 101, 115, 116>>] } }

\* The ids asked to be deleted: "admin", "uploader" and "nobody".
DeletedIds ==
    { <<97, 100, 109, 105, 110>>, <<117, 112, 108, 111, 97, 100, 101, 114>>,
      <<110, 111, 98, 111, 100, 121>> }

\* Database.UpdateUserRole makes the uploader an admin.
AdminUpdateUserRoleCall ==
    /\ call.op = "none"
    /\ \E id \in { <<117, 112, 108, 111, 97, 100, 101, 114>> } :
        /\ id \in DOMAIN db
        /\ db[id].Role # RoleAdmin
        /\ db' = [db EXCEPT ![id].Role = RoleAdmin]
    /\ UNCHANGED <<now, tm, issued, call, permissionMap>>

\* "admin" or "uploader" logs in; the client keeps the token.
AdminLoginCall ==
    /\ call.op = "none"
    /\ Len(issued) < MaxSessions
    /\ \E body \in { b \in LoginBodies :
                       /\ b # <<>>
                       /\ b[1].Username \in { <<97, 100, 109, 105, 110>>,
                                              <<117, 112, 108, 111, 97, 100, 101, 114>> } } :
        LET h == LoginHandler(body, now)
        IN  /\ h.status = 200
            /\ h.issued[1] \notin { issued[k] : k \in DOMAIN issued }
            /\ issued' = Append(issued, h.issued[1])
    /\ UNCHANGED <<now, tm, call, db, permissionMap>>

\* An admin handler is called with any context, with no middleware before
\* it.
AdminHandlerCall ==
    /\ call.op = "none"
    /\ \E handler \in {"GetUsers", "DeleteUser"}, r \in AdminContexts,
          userId \in DeletedIds :
        LET h == Handle(handler, r, userId, now)
        IN  /\ call' = [op |-> "AdminHandler", handler |-> handler, r |-> r,
                        userId |-> userId, before |-> db, at |-> now,
                        status |-> h.status, body |-> h.body]
            /\ db' = h.db
    /\ UNCHANGED <<now, tm, issued, permissionMap>>

\* The holder of a token sends DELETE /api/admin/users/{id} with the token in
\* the cookie; the request then goes through the chain of its route,
\* AuthMiddleware and RequireRole(RoleAdmin), to DeleteUser.  before is the
\* users table as the request arrives.
AdminReceive ==
    /\ call.op = "none"
    /\ \E k \in DOMAIN issued, userId \in DeletedIds,
          route \in { x \in ProtectedRoutes : x.handler = "DeleteUser" } :
        call' = [op |-> "Request", route |-> route, arg |-> userId,
                 at |-> now, r |-> Request(<<issued[k].token>>, <<>>),
                 pc |-> 1, ran |-> <<>>, written |-> <<>>,
                 identities |-> <<>>, validated |-> <<>>,
                 handlerUser |-> <<>>, before |-> db]
    /\ UNCHANGED <<now, tm, issued, db, permissionMap>>

AdminNext ==
    \/ Tick
    \/ AdminUpdateUserRoleCall
    \/ AdminLoginCall
    \/ AdminHandlerCall
    \/ AdminReceive
    \/ AuthMiddlewareStep
    \/ RequireRoleStep
    \/ HandlerStep
    \/ Respond
    \/ Return

AdminSpec == Init /\ [][AdminNext]_vars

\* An admin handler was called without middleware before it.
CalledDirectly == call.op = "AdminHandler"

\* A request for DELETE /api/admin/users/{id} has been answered.
DeleteRequestAnswered ==
    /\ call.op = "Request"
    /\ call.route.handler = "DeleteUser"
    /\ call.pc = 0

\* The rows of the users table with role admin.
Admins == { id \in DOMAIN db : db[id].Role = RoleAdmin }

(***************************************************************************)
(* C30.  Admin user deletion: DeleteUser and GetUsers answer 403 and leave *)
(* the store unchanged when the context identity is absent or its role is  *)
(* not admin, independently of the RequireRole guard; an admin's request   *)
(* to delete their own id is refused with 400 and deletes nothing;         *)
(* deleting an unknown id answers 404 and deletes nothing; a successful    *)
(* call removes exactly the named user.  The self-deletion rule alone does *)
(* not keep an admin in the store: two admins can delete each other, since *)
(* a deleted admin's unexpired token still passes.                         *)
(***************************************************************************)
C30_AdminDeletion ==
    /\ CalledDirectly =>
        LET user == GetUserFromContext(call.r.ctx)
        IN  IF user = <<>> \/ user[1].Role # RoleAdmin
            THEN call.status = 403 /\ db = call.before
            ELSE IF call.handler = "GetUsers"
            THEN call.status = 200 /\ db = call.before
            ELSE IF call.userId = user[1].ID
            THEN call.status = 400 /\ db = call.before
            ELSE IF call.userId \notin DOMAIN call.before
            THEN call.status = 404 /\ db = call.before
            ELSE /\ call.status = 200
                 /\ DOMAIN db = DOMAIN call.before \ {call.userId}
                 /\ \A id \in DOMAIN db : db[id] = call.before[id]
    /\ DeleteRequestAnswered =>
        LET res == ValidateToken(tm, call.r.cookie[1], call.at)
            response == call.written[Len(call.written)]
        IN  /\ Len(call.written) = 1
            /\ IF /\ res.err = ""
                  /\ res.claims[1].Role = RoleAdmin
                  /\ call.arg # res.claims[1].UserID
                  /\ call.arg \in DOMAIN call.before
               THEN /\ response.status = 200
                    /\ call.ran = <<"AuthMiddleware", "RequireRole", "DeleteUser">>
                    /\ DOMAIN db = DOMAIN call.before \ {call.arg}
                    /\ \A id \in DOMAIN db : db[id] = call.before[id]
               ELSE /\ response.status \in {400, 401, 403, 404}
                    /\ db = call.before

\* Two admins deleted each other: the second deletion was asked with the
\* unexpired token of the admin deleted first, and no admin is left in the
\* users table.
C30_Witness ==
    /\ DeleteRequestAnswered
    /\ call.written[1].status = 200
    /\ LET res == ValidateToken(tm, call.r.cookie[1], call.at)
       IN  /\ res.err = ""
           /\ res.claims[1].UserID \notin DOMAIN call.before
           /\ res.claims[1].UserID # call.arg
    /\ call.before[call.arg].Role = RoleAdmin
    /\ Admins = {}

=============================================================================
